---- MODULE Spec2Model ----
(***************************************************************************)
(* Model of the notes backend: the sync reconciler (SyncService over       *)
(* NoteRepository), the token service (AuthService over                    *)
(* TokenBlacklistRepository) and the WebSocket hub.                        *)
(*                                                                         *)
(* Time is a natural number of clock ticks.  One tick is the resolution    *)
(* of the server and database clocks; two store round trips never share a  *)
(* tick.  A millisecond is TicksPerMilli ticks (the ISO8601Format layout   *)
(* keeps milliseconds only) and a second is TicksPerSecond ticks (JWT      *)
(* NumericDate keeps seconds only).                                        *)
(***************************************************************************)
EXTENDS Integers, Sequences, FiniteSets, TLC

VARIABLES
    now,            \* the server clock, in ticks
    storeFaulty,    \* whether calls to the durable store may return an error
    notes,          \* table notes (with its checklist_items), by id
    checkpoint,     \* per device: the serverTimestamp of its last Sync response
    owed,           \* per device: ids written by sibling devices since its checkpoint
    pending,        \* per device: the Sync call whose queries ran last, if any
    upserts,        \* per device: the Upsert of its Sync call, between GetByID and the write
    tokens,         \* every token issued so far (its claims)
    blacklist,      \* table token_blacklist
    password,       \* per user: version of users.password_hash
    rotated,        \* jti of the refresh tokens for which RefreshTokenPair returned a pair
    loggedOut,      \* jti of the tokens passed to Logout while valid
    logoutAllAt,    \* per user: tick of the last LogoutAll call
    pwChangedAt,    \* per user: tick of the last successful ChangePassword
    refreshCalls,   \* per caller: its RefreshTokenPair call, between the check and the insert
    hubClients,     \* Hub.clients: per user, the ids of the registered connections
    connUser,       \* per connection: Client.UserID, NoUser before NewClient
    send,           \* per connection: the content of the buffered channel Client.Send
    closed,         \* per connection: whether Client.Send has been closed
    readPump,       \* per connection: where the ReadPump goroutine is
    writePump,      \* per connection: where the WritePump goroutine is
    connOpen,       \* per connection: Client.Conn has not been closed by the server
    readDeadline,   \* per connection: the read deadline set on Client.Conn
    nextPing,       \* per connection: the next tick of WritePump's ticker
    readErr,        \* per connection: the error ReadMessage returned to ReadPump
    hubRun,         \* where the Hub.Run goroutine is, and the client it received
    mu,             \* Hub.mu: the callers that hold the read lock
    handler,        \* per connection: where HandleWebSocket is with Hub.Register
    bcast           \* per broadcaster: its BroadcastToUser call

syncVars == <<notes, checkpoint, owed, pending, upserts>>

authVars == <<tokens, blacklist, password, rotated, loggedOut, logoutAllAt, pwChangedAt,
             refreshCalls>>

pumpVars == <<readPump, writePump, connOpen, readDeadline, nextPing, readErr>>

lockVars == <<hubRun, mu, handler, bcast>>

hubVars == <<hubClients, connUser, send, closed, pumpVars, lockVars>>

vars == <<now, storeFaulty, syncVars, authVars, hubVars>>

----------------------------------------------------------------------------
(* Bounds *)

MaxClock == 5
TicksPerMilli == 2
TicksPerSecond == 2
AccessExpirySeconds == 2
RefreshExpirySeconds == 3
MarkerTTLSeconds == 3
MaxTokens == 4
MaxPasswordChanges == 1
SendCap == 2
PongWait == 4

\* Lengths of the strings that make up a token_blacklist.token_id.
UUIDLen == 36
RFC3339Len == 20
TokenIDColumnLen == 36

\* Client timestamps range over the milliseconds the server clock covers.
MaxClientMilli == MaxClock \div TicksPerMilli

----------------------------------------------------------------------------
(* Domains *)

Users == {"u1", "u2"}
NoteIds == {"n1", "n2"}
BadId == "not-a-uuid"
Devices == {"dA", "dB", "dC"}

DeviceUser(d) == IF d = "dC" THEN "u2" ELSE "u1"

Null == -1
NoRow == [absent |-> TRUE]
BadTime == -2
NoLastSync == -3
NoCheckpoint == -4
NoPending == [open |-> FALSE, queriedAt |-> Null]
NoUpsert == [phase |-> "idle"]

\* The clients that call POST /auth/refresh at the same time.
Callers == {"k1", "k2"}
NoCall == [phase |-> "idle"]

\* The client-supplied content of a note: title stands for the scalar fields
\* written together by Create and Update (title, content, note_type,
\* is_pinned, is_archived, sort_order); items is the checklist item set.
\* Item ids are generated by the client per note: item "i1" of one note is
\* not item "i1" of another.
Payloads == { [title |-> "A", items |-> {}, createdAt |-> 0],
              [title |-> "B", items |-> {"i1"}, createdAt |-> 1] }

ClientTimes == (0..MaxClientMilli) \cup {BadTime}

NoteDTO == { [id |-> i, title |-> p.title, items |-> p.items,
              createdAt |-> p.createdAt, updatedAt |-> u] :
                i \in NoteIds, p \in Payloads, u \in ClientTimes }
           \cup { [id |-> BadId, title |-> "A", items |-> {},
                   createdAt |-> 0, updatedAt |-> 0] }

----------------------------------------------------------------------------
(* time.Format / time.Parse with ISO8601Format *)

\* A formatted timestamp is represented by its millisecond count; a string
\* that the layout does not parse is BadTime, an absent one NoLastSync.
FormatISO(t) == t \div TicksPerMilli

ParseOK(s) == s >= 0

ParseISO(s) == s * TicksPerMilli

----------------------------------------------------------------------------
(* NoteRepository *)

GetByID(store, id, userID) ==
    IF store[id] # NoRow /\ store[id].owner = userID /\ store[id].deletedAt = Null
    THEN store[id]
    ELSE NoRow

\* Mutant of Create: INSERT ... ON CONFLICT (id) DO UPDATE.
CreateOnConflictUpdate(store, note) ==
    [store |-> [store EXCEPT ![note.id] =
                    [owner |-> note.owner, title |-> note.title,
                     items |-> note.items, createdAt |-> note.createdAt,
                     updatedAt |-> note.updatedAt, deletedAt |-> Null]],
     err |-> FALSE]

Create(store, note) ==
    IF store[note.id] # NoRow
    THEN [store |-> store, err |-> TRUE]
    ELSE [store |-> [store EXCEPT ![note.id] =
                        [owner |-> note.owner, title |-> note.title,
                         items |-> note.items, createdAt |-> note.createdAt,
                         updatedAt |-> note.updatedAt, deletedAt |-> Null]],
          err |-> FALSE]

\* The points at which a statement of the transaction of Update can fail.
NoFailure == "none"
TxFailures == {NoFailure, "begin", "update", "delete", "insert", "commit"}

\* Mutant of UpdateTx: the DELETE FROM checklist_items left out, so that the
\* incoming items are added to the stored ones.
UpdateTxMerging(store, note, failAt) ==
    IF failAt # NoFailure
    THEN [store |-> store, err |-> TRUE]
    ELSE IF store[note.id] # NoRow /\ store[note.id].owner = note.owner
                                   /\ store[note.id].deletedAt = Null
    THEN [store |-> [store EXCEPT ![note.id].title = note.title,
                                  ![note.id].items = @ \cup note.items,
                                  ![note.id].updatedAt = note.updatedAt],
          err |-> FALSE]
    ELSE [store |-> store, err |-> TRUE]

\* Update with the statement that fails, if any.  Every statement runs on the
\* transaction tx: UPDATE notes (ErrNoteNotFound if no row matches), DELETE
\* FROM checklist_items, one INSERT per incoming item, Commit; the deferred
\* Rollback undoes them all unless Commit succeeded.
UpdateTx(store, note, failAt) ==
    LET matches == store[note.id] # NoRow /\ store[note.id].owner = note.owner
                                          /\ store[note.id].deletedAt = Null
        updated == [store EXCEPT ![note.id].title = note.title,
                                 ![note.id].updatedAt = note.updatedAt]
        deleted == [updated EXCEPT ![note.id].items = {}]
        inserted == [deleted EXCEPT ![note.id].items = @ \cup note.items]
    IN IF failAt # NoFailure \/ ~matches
       THEN [store |-> store, err |-> TRUE]
       ELSE [store |-> inserted, err |-> FALSE]

Update(store, note) == UpdateTx(store, note, NoFailure)

\* Mutant of After: the operands of the comparison swapped.
AfterSwapped(t1, t2) == t1 < t2

After(t1, t2) == t1 > t2

\* Mutant of Upsert: the incoming note is applied unless it is older, so a
\* tie overwrites the stored version.
UpsertOnTie(store, note) ==
    LET existing == GetByID(store, note.id, note.owner)
    IN IF existing # NoRow
       THEN IF ~After(existing.updatedAt, note.updatedAt)
            THEN Update(store, note)
            ELSE [store |-> store, err |-> FALSE]
       ELSE Create(store, note)

Upsert(store, note) ==
    LET existing == GetByID(store, note.id, note.owner)
    IN IF existing # NoRow
       THEN IF After(note.updatedAt, existing.updatedAt)
            THEN Update(store, note)
            ELSE [store |-> store, err |-> FALSE]
       ELSE Create(store, note)

\* Mutant of SoftDelete: the condition deleted_at IS NULL left out.
SoftDeleteRestamp(store, id, userID, t) ==
    IF store[id] # NoRow /\ store[id].owner = userID
    THEN [store |-> [store EXCEPT ![id].deletedAt = t, ![id].updatedAt = t],
          err |-> FALSE]
    ELSE [store |-> store, err |-> TRUE]

SoftDelete(store, id, userID, t) ==
    IF store[id] # NoRow /\ store[id].owner = userID /\ store[id].deletedAt = Null
    THEN [store |-> [store EXCEPT ![id].deletedAt = t, ![id].updatedAt = t],
          err |-> FALSE]
    ELSE [store |-> store, err |-> TRUE]

\* Mutant of GetAllByUserID: updated_at >= $2 instead of updated_at > $2.
GetAllByUserIDInclusive(store, userID, since) ==
    { i \in NoteIds : /\ store[i] # NoRow
                      /\ store[i].owner = userID
                      /\ store[i].deletedAt = Null
                      /\ (since # Null => store[i].updatedAt >= since) }

GetAllByUserID(store, userID, since) ==
    { i \in NoteIds : /\ store[i] # NoRow
                      /\ store[i].owner = userID
                      /\ store[i].deletedAt = Null
                      /\ (since # Null => store[i].updatedAt > since) }

\* Mutant of GetDeletedSince: the condition user_id = $1 left out.
GetDeletedSinceAnyUser(store, userID, since) ==
    { i \in NoteIds : /\ store[i] # NoRow
                      /\ store[i].deletedAt # Null
                      /\ (since # Null => store[i].deletedAt > since) }

GetDeletedSince(store, userID, since) ==
    { i \in NoteIds : /\ store[i] # NoRow
                      /\ store[i].owner = userID
                      /\ store[i].deletedAt # Null
                      /\ (since # Null => store[i].deletedAt > since) }

----------------------------------------------------------------------------
(* SyncService *)

\* Mutant of dtoToNote: a timestamp that does not parse fails the conversion,
\* so that Sync skips the change.
dtoToNoteStrict(dto, userID, t) ==
    IF dto.id \notin NoteIds \/ ~ParseOK(dto.createdAt) \/ ~ParseOK(dto.updatedAt)
    THEN [err |-> TRUE]
    ELSE [err |-> FALSE, id |-> dto.id, owner |-> userID,
          title |-> dto.title, items |-> dto.items,
          createdAt |-> ParseISO(dto.createdAt),
          updatedAt |-> ParseISO(dto.updatedAt)]

dtoToNote(dto, userID, t) ==
    IF dto.id \notin NoteIds
    THEN [err |-> TRUE]
    ELSE [err |-> FALSE, id |-> dto.id, owner |-> userID,
          title |-> dto.title, items |-> dto.items,
          createdAt |-> IF ParseOK(dto.createdAt) THEN ParseISO(dto.createdAt) ELSE t,
          updatedAt |-> IF ParseOK(dto.updatedAt) THEN ParseISO(dto.updatedAt) ELSE t]

\* The loop over req.Changes: an item that fails conversion is skipped without
\* a store call, every other item is written one tick after the previous one.
RECURSIVE ApplyChanges(_, _, _, _)
ApplyChanges(store, userID, changes, t) ==
    IF changes = <<>>
    THEN [store |-> store, err |-> FALSE]
    ELSE LET note == dtoToNote(Head(changes), userID, t)
         IN IF note.err
            THEN ApplyChanges(store, userID, Tail(changes), t)
            ELSE LET r == Upsert(store, note)
                 IN IF r.err
                    THEN [store |-> r.store, err |-> TRUE]
                    ELSE ApplyChanges(r.store, userID, Tail(changes), t + 1)

\* The loop over req.DeletedIDs; the result of SoftDelete is discarded.
RECURSIVE ApplyDeletions(_, _, _, _)
ApplyDeletions(store, userID, ids, t) ==
    IF ids = <<>>
    THEN store
    ELSE IF Head(ids) \notin NoteIds
         THEN ApplyDeletions(store, userID, Tail(ids), t)
         ELSE ApplyDeletions(SoftDelete(store, Head(ids), userID, t).store,
                             userID, Tail(ids), t + 1)

ParseLastSync(ls) == IF ParseOK(ls) THEN ParseISO(ls) ELSE Null

\* The number of elements of a request that reach the store: those whose id
\* parses as a UUID.  Each of them takes one tick.
StoreCalls(req) ==
    Cardinality({ k \in 1..Len(req.changes) : req.changes[k].id \in NoteIds })
    + Cardinality({ k \in 1..Len(req.deletedIDs) : req.deletedIDs[k] \in NoteIds })

\* Mutant of ApplyBatch: an item that fails to parse fails the call instead
\* of being skipped.
ApplyBatchStrict(store, userID, req, t) ==
    LET c == ApplyChanges(store, userID, req.changes, t)
    IN IF StoreCalls(req) # Len(req.changes) + Len(req.deletedIDs)
       THEN [store |-> store, err |-> TRUE]
       ELSE IF c.err
            THEN c
            ELSE [store |-> ApplyDeletions(c.store, userID, req.deletedIDs,
                                           t + Len(req.changes)),
                  err |-> FALSE]

\* The two loops of Sync: the changes, then the deletions.
ApplyBatch(store, userID, req, t) ==
    LET c == ApplyChanges(store, userID, req.changes, t)
    IN IF c.err
       THEN c
       ELSE [store |-> ApplyDeletions(c.store, userID, req.deletedIDs,
                                      t + StoreCalls([changes |-> req.changes,
                                                      deletedIDs |-> <<>>])),
             err |-> FALSE]

\* A stored note as the response carries it: timestamps formatted to the
\* millisecond.
noteToDTO(id, note) ==
    [id |-> id, title |-> note.title, items |-> note.items,
     createdAt |-> FormatISO(note.createdAt),
     updatedAt |-> FormatISO(note.updatedAt)]

\* The two queries of Sync, on the store the loops left.
Delta(store, userID, lastSync) ==
    [notes |-> { noteToDTO(i, store[i]) :
                   i \in GetAllByUserID(store, userID, lastSync) },
     deleted |-> GetDeletedSince(store, userID, lastSync)]

\* SyncService.Sync started at tick t: the store it leaves and its response.
Sync(store, userID, req, t) ==
    LET a == ApplyBatch(store, userID, req, t)
        tEnd == t + StoreCalls(req)
    IN IF a.err
       THEN [store |-> a.store, err |-> TRUE, notes |-> {}, deleted |-> {},
             serverTimestamp |-> NoLastSync, at |-> tEnd]
       ELSE LET r == Delta(a.store, userID, ParseLastSync(req.lastSync))
            IN [store |-> a.store, err |-> FALSE,
                notes |-> r.notes, deleted |-> r.deleted,
                serverTimestamp |-> FormatISO(tEnd), at |-> tEnd]

\* The store calls of Sync that can return an error other than not-found:
\* Upsert, SoftDelete, GetAllByUserID, GetDeletedSince.
StoreOps == {"upsert", "softDelete", "getAll", "getDeleted"}

\* Sync started at tick t when every call of the operations in failing
\* returns a store error.  failed tells whether such a call was made.
SyncFaulty(store, userID, req, t, failing) ==
    LET upserts_ == { k \in 1..Len(req.changes) : req.changes[k].id \in NoteIds }
        deletes == { k \in 1..Len(req.deletedIDs) : req.deletedIDs[k] \in NoteIds }
        tEnd == t + StoreCalls(req)
        failure(st, hit) ==
            [store |-> st, err |-> TRUE, failed |-> hit, notes |-> {}, deleted |-> {},
             serverTimestamp |-> NoLastSync, at |-> tEnd]
    IN IF "upsert" \in failing /\ upserts_ # {}
       THEN failure(store, TRUE)
       ELSE LET c == ApplyChanges(store, userID, req.changes, t)
            IN IF c.err
               THEN failure(c.store, FALSE)
               ELSE LET lost == "softDelete" \in failing /\ deletes # {}
                        st == IF "softDelete" \in failing
                              THEN c.store
                              ELSE ApplyDeletions(c.store, userID, req.deletedIDs,
                                                  t + Cardinality(upserts_))
                    IN IF "getAll" \in failing \/ "getDeleted" \in failing
                       THEN failure(st, TRUE)
                       ELSE LET r == Delta(st, userID, ParseLastSync(req.lastSync))
                            IN [store |-> st, err |-> FALSE, failed |-> lost,
                                notes |-> r.notes, deleted |-> r.deleted,
                                serverTimestamp |-> FormatISO(tEnd), at |-> tEnd]

----------------------------------------------------------------------------
(* Requests a device may send *)

DeletedIDs == NoteIds \cup {BadId}

\* The batches the devices send: nothing, one change, one deletion, or one
\* change followed by one deletion.
Batches ==
    { [changes |-> <<>>, deletedIDs |-> <<>>] }
    \cup { [changes |-> <<c>>, deletedIDs |-> <<>>] : c \in NoteDTO }
    \cup { [changes |-> <<>>, deletedIDs |-> <<i>>] : i \in DeletedIDs }
    \cup { [changes |-> <<c>>, deletedIDs |-> <<i>>] : c \in NoteDTO, i \in DeletedIDs }

\* A device presents no checkpoint (first sync) or the serverTimestamp of its
\* previous response.
LastSyncChoices(d) ==
    {NoLastSync} \cup (IF checkpoint[d] = NoCheckpoint THEN {} ELSE {checkpoint[d]})

Request(b, ls) == [changes |-> b.changes, deletedIDs |-> b.deletedIDs, lastSync |-> ls]

\* Ids of the rows a call wrote (created, updated or soft-deleted).
Applied(before, after) == { i \in NoteIds : before[i] # after[i] }

----------------------------------------------------------------------------
(* Actions of the sync subsystem *)

Tick ==
    /\ now < MaxClock
    /\ now' = now + 1
    /\ UNCHANGED <<storeFaulty, syncVars, authVars, hubVars>>

----------------------------------------------------------------------------
(* Token claims (jwt.RegisteredClaims + TokenType) *)

AccessToken == "access"
RefreshToken == "refresh"

\* jwt.NewNumericDate truncates to whole seconds.
NewNumericDate(t) == (t \div TicksPerSecond) * TicksPerSecond

AccessExpiry == AccessExpirySeconds * TicksPerSecond
RefreshExpiry == RefreshExpirySeconds * TicksPerSecond

\* A signed token is represented by its claims; sig tells whether the HMAC
\* signature verifies under jwtSecret, at is the instant of issuance.
generateToken(userID, tokenType, expiry, t, n) ==
    [jti |-> n, sub |-> userID, typ |-> tokenType,
     iat |-> NewNumericDate(t), exp |-> NewNumericDate(t + expiry),
     at |-> t, sig |-> TRUE]

generateTokenPair(userID, t, n) ==
    { generateToken(userID, AccessToken, AccessExpiry, t, n + 1),
      generateToken(userID, RefreshToken, RefreshExpiry, t, n + 2) }

\* A token that was not signed with jwtSecret.
ForgedToken == [jti |-> 0, sub |-> "u1", typ |-> AccessToken,
                iat |-> 0, exp |-> NewNumericDate(MaxClock) + TicksPerSecond,
                at |-> 0, sig |-> FALSE]

NoToken == [jti |-> -1, sub |-> "", typ |-> "", iat |-> 0, exp |-> 0, at |-> 0, sig |-> FALSE]

Presentable == tokens \cup {ForgedToken}

----------------------------------------------------------------------------
(* TokenBlacklistRepository over table token_blacklist *)

\* The token_id of a row: the jti of a token (a UUID string), or the marker
\* "all:<user_id>:<RFC3339 timestamp>" of a revoke-all.
TokenKey(n) == [kind |-> "jti", user |-> "", n |-> n]

FormatRFC3339(t) == t \div TicksPerSecond

MarkerKey(userID, t) == [kind |-> "all", user |-> userID, n |-> FormatRFC3339(t)]

KeyLen(k) == IF k.kind = "jti" THEN UUIDLen ELSE 4 + UUIDLen + 1 + RFC3339Len

\* INSERT INTO token_blacklist ... ON CONFLICT (token_id) DO NOTHING, with
\* revoked_at DEFAULT NOW(); a token_id longer than the VARCHAR(36) column is
\* rejected by the database.
InsertBlacklist(bl, k, userID, expiresAt, t) ==
    IF KeyLen(k) > TokenIDColumnLen
    THEN [bl |-> bl, err |-> TRUE]
    ELSE IF \E row \in bl : row.token_id = k
         THEN [bl |-> bl, err |-> FALSE]
         ELSE [bl |-> bl \cup { [token_id |-> k, user_id |-> userID,
                                 revoked_at |-> t, expires_at |-> expiresAt] },
               err |-> FALSE]

RevokeToken(bl, n, userID, expiresAt, t) ==
    InsertBlacklist(bl, TokenKey(n), userID, expiresAt, t)

IsTokenRevoked(bl, n) == \E row \in bl : row.token_id = TokenKey(n)

MarkerTTL == MarkerTTLSeconds * TicksPerSecond

RevokeAllUserTokens(bl, userID, beforeTime, t) ==
    InsertBlacklist(bl, MarkerKey(userID, beforeTime), userID, t + MarkerTTL, t)

\* MAX(revoked_at) over the user's marker rows; Null is the zero time.
GetUserRevokeAllTime(bl, userID) ==
    LET ms == { row \in bl : row.user_id = userID /\ row.token_id.kind = "all" }
    IN IF ms = {} THEN Null
       ELSE CHOOSE m \in { row.revoked_at : row \in ms } :
                \A row \in ms : row.revoked_at <= m

\* Mutant of CleanupExpired: DELETE FROM token_blacklist without the WHERE clause.
CleanupExpiredAll(bl, t) == {}

\* DELETE FROM token_blacklist WHERE expires_at < NOW().
CleanupExpired(bl, t) == { row \in bl : ~(row.expires_at < t) }

----------------------------------------------------------------------------
(* AuthService *)

\* Outcomes of a call to the durable store: TRUE is an error.
Faults == IF storeFaulty THEN BOOLEAN ELSE {FALSE}

parseAndValidateToken(tok, t) ==
    IF ~tok.sig THEN "invalid"
    ELSE IF t >= tok.exp THEN "expired"
    ELSE "ok"

\* e1 is the outcome of IsTokenRevoked, e2 of GetUserRevokeAllTime.
checkTokenRevoked(bl, claims, userID, e1, e2) ==
    IF e1 THEN "ok"
    ELSE IF IsTokenRevoked(bl, claims.jti) THEN "revoked"
    ELSE IF e2 THEN "ok"
    ELSE IF GetUserRevokeAllTime(bl, userID) # Null
            /\ claims.iat < GetUserRevokeAllTime(bl, userID)
         THEN "revoked"
         ELSE "ok"

Validate(tok, tokenType, bl, t, e1, e2) ==
    IF parseAndValidateToken(tok, t) # "ok" THEN parseAndValidateToken(tok, t)
    ELSE IF tok.typ # tokenType THEN "invalid"
    ELSE checkTokenRevoked(bl, tok, tok.sub, e1, e2)

ValidateTokenWithContext(tok, bl, t, e1, e2) == Validate(tok, AccessToken, bl, t, e1, e2)

ValidateRefreshTokenWithContext(tok, bl, t, e1, e2) == Validate(tok, RefreshToken, bl, t, e1, e2)

\* Mutant of RefreshTokenPair: the rotation also blacklists the access token
\* that was issued together with the refresh token.
RefreshTokenPairRevokingPair(tok, toks, bl, t, e1, e2, e3) ==
    LET v == Validate(tok, RefreshToken, bl, t, e1, e2)
    IN IF v # "ok"
       THEN [res |-> v, issued |-> {}, bl |-> bl]
       ELSE [res |-> "ok",
             issued |-> generateTokenPair(tok.sub, t, Cardinality(toks)),
             bl |-> IF e3 THEN bl
                    ELSE RevokeToken(RevokeToken(bl, tok.jti, tok.sub, tok.exp, t).bl,
                                     tok.jti - 1, tok.sub, tok.exp, t).bl]

\* RefreshTokenPair: the outcome, the tokens it issues and the blacklist it
\* leaves; e3 is the outcome of the RevokeToken insert.
RefreshTokenPair(tok, toks, bl, t, e1, e2, e3) ==
    LET v == Validate(tok, RefreshToken, bl, t, e1, e2)
    IN IF v # "ok"
       THEN [res |-> v, issued |-> {}, bl |-> bl]
       ELSE [res |-> "ok",
             issued |-> generateTokenPair(tok.sub, t, Cardinality(toks)),
             bl |-> IF e3 THEN bl ELSE RevokeToken(bl, tok.jti, tok.sub, tok.exp, t).bl]

\* The part of Logout that handles one of its two tokens.
LogoutOne(bl, tok, t, e) ==
    IF tok # NoToken /\ parseAndValidateToken(tok, t) = "ok" /\ ~e
    THEN RevokeToken(bl, tok.jti, tok.sub, tok.exp, t).bl
    ELSE bl

\* AuthMiddleware: the request carries an access token that validates for u.
Authenticated(u) ==
    \E a \in tokens, e1 \in Faults, e2 \in Faults :
        a.sub = u /\ ValidateTokenWithContext(a, blacklist, now, e1, e2) = "ok"

----------------------------------------------------------------------------
(* Actions of the token service; every handler takes one tick *)

Login ==
    \E u \in Users :
      /\ now < MaxClock
      /\ Cardinality(tokens) + 2 <= MaxTokens
      /\ tokens' = tokens \cup generateTokenPair(u, now, Cardinality(tokens))
      /\ now' = now + 1
      /\ UNCHANGED <<storeFaulty, syncVars, hubVars, blacklist, password, rotated,
                     loggedOut, logoutAllAt, pwChangedAt, refreshCalls>>

Refresh ==
    \E tok \in Presentable, e1 \in Faults, e2 \in Faults, e3 \in Faults :
      \E r \in { RefreshTokenPair(tok, tokens, blacklist, now, e1, e2, e3) } :
        /\ now < MaxClock
        /\ Cardinality(tokens) + Cardinality(r.issued) <= MaxTokens
        /\ tokens' = tokens \cup r.issued
        /\ blacklist' = r.bl
        /\ rotated' = IF r.res = "ok" THEN rotated \cup {tok.jti} ELSE rotated
        /\ now' = now + 1
        /\ UNCHANGED <<storeFaulty, syncVars, hubVars, password, loggedOut, logoutAllAt,
                       pwChangedAt, refreshCalls>>

Logout ==
    \E a \in Presentable \cup {NoToken}, r \in Presentable \cup {NoToken} :
      \E ea \in Faults, er \in Faults :
        /\ now < MaxClock
        /\ blacklist' = LogoutOne(LogoutOne(blacklist, a, now, ea), r, now, er)
        /\ loggedOut' = loggedOut \cup
               { t.jti : t \in { x \in {a, r} :
                                   x # NoToken /\ parseAndValidateToken(x, now) = "ok" } }
        /\ now' = now + 1
        /\ UNCHANGED <<storeFaulty, syncVars, hubVars, tokens, password, rotated,
                       logoutAllAt, pwChangedAt, refreshCalls>>

LogoutAll ==
    \E u \in Users, e \in Faults :
      /\ now < MaxClock
      /\ Authenticated(u)
      /\ blacklist' = IF e THEN blacklist
                      ELSE RevokeAllUserTokens(blacklist, u, now, now).bl
      /\ logoutAllAt' = [logoutAllAt EXCEPT ![u] = now]
      /\ now' = now + 1
      /\ UNCHANGED <<storeFaulty, syncVars, hubVars, tokens, password, rotated,
                     loggedOut, pwChangedAt, refreshCalls>>

\* ChangePassword with the correct current password and an acceptable new
\* one; e is the outcome of the user store calls.
ChangePassword ==
    \E u \in Users, e \in Faults :
      /\ now < MaxClock
      /\ Authenticated(u)
      /\ password[u] < MaxPasswordChanges
      /\ password' = IF e THEN password ELSE [password EXCEPT ![u] = @ + 1]
      /\ pwChangedAt' = IF e THEN pwChangedAt ELSE [pwChangedAt EXCEPT ![u] = now]
      /\ now' = now + 1
      /\ UNCHANGED <<storeFaulty, syncVars, hubVars, tokens, blacklist, rotated,
                     loggedOut, logoutAllAt, refreshCalls>>

\* The periodic sweep of main: CleanupExpiredTokens.
Cleanup ==
    \E e \in Faults :
      /\ blacklist' = IF e THEN blacklist ELSE CleanupExpired(blacklist, now)
      /\ blacklist' # blacklist
      /\ UNCHANGED <<now, storeFaulty, syncVars, hubVars, tokens, password, rotated,
                     loggedOut, logoutAllAt, pwChangedAt, refreshCalls>>

NextAuth == Tick \/ Login \/ Refresh \/ Logout \/ LogoutAll \/ ChangePassword \/ Cleanup

\* Room for the pairs that two calls with one refresh token can return.
MaxRaceTokens == MaxTokens + 2

\* RefreshTokenPair called by k with refresh token tok, up to the return of
\* checkTokenRevoked.  A call that is rejected returns here.  met tells
\* whether the other caller had a call in progress during this one.
RefreshCheck ==
    \E k \in Callers, tok \in { x \in tokens : x.typ = RefreshToken } :
      \E e1 \in Faults, e2 \in Faults :
        /\ refreshCalls[k].phase # "checked"
        /\ now < MaxClock
        /\ \E v \in { Validate(tok, RefreshToken, blacklist, now, e1, e2) } :
             refreshCalls' =
               [j \in Callers |->
                  IF j = k
                  THEN IF v = "ok"
                       THEN [phase |-> "checked", tok |-> tok,
                             met |-> \E i \in Callers \ {k} :
                                        refreshCalls[i].phase = "checked"]
                       ELSE [phase |-> "done", tok |-> tok, res |-> v, met |-> FALSE]
                  ELSE IF refreshCalls[j].phase = "checked"
                       THEN [refreshCalls[j] EXCEPT !.met = TRUE]
                       ELSE refreshCalls[j]]
        /\ UNCHANGED <<now, storeFaulty, syncVars, hubVars, tokens, blacklist, password,
                       rotated, loggedOut, logoutAllAt, pwChangedAt>>

\* The rest of that call: generateTokenPair, the RevokeToken insert, whose
\* error is logged only, and the return of the pair.
RefreshRevoke ==
    \E k \in Callers, e3 \in Faults :
      /\ refreshCalls[k].phase = "checked"
      /\ now < MaxClock
      /\ Cardinality(tokens) + 2 <= MaxRaceTokens
      /\ tokens' = tokens \cup generateTokenPair(refreshCalls[k].tok.sub, now,
                                                  Cardinality(tokens))
      /\ blacklist' = IF e3 THEN blacklist
                      ELSE RevokeToken(blacklist, refreshCalls[k].tok.jti,
                                       refreshCalls[k].tok.sub,
                                       refreshCalls[k].tok.exp, now).bl
      /\ rotated' = rotated \cup {refreshCalls[k].tok.jti}
      /\ refreshCalls' = [refreshCalls EXCEPT ![k] =
                            [phase |-> "done", tok |-> @.tok, res |-> "ok",
                             met |-> @.met]]
      /\ now' = now + 1
      /\ UNCHANGED <<storeFaulty, syncVars, hubVars, password, loggedOut, logoutAllAt,
                     pwChangedAt>>

\* Logins and refresh calls whose steps interleave.
NextRefreshRace == Login \/ RefreshCheck \/ RefreshRevoke


----------------------------------------------------------------------------
(* Hub and Client *)

Conns == {"c1", "c2", "c3"}
NoConn == ""
NoUser == ""

\* pingPeriod = (pongWait * 9) / 10, in ticks like PongWait.
PingPeriod == (PongWait * 9) \div 10

\* A goroutine that has not started, a deadline that has not been set, no error.
NotStarted == "none"
NoDeadline == -1
NoError == "none"

\* What the peer can send: a pong control frame, a text message of type
\* "ping", any other text message.
Frames == {"pong", "ping", "other"}

\* The marshalled WSMessage handleMessage answers a "ping" message with.
PongMessage == [type |-> "pong", id |-> ""]

\* Mutant of ReadDeadlineAfter: every frame refreshes the deadline.
ReadDeadlineAfterAnyFrame(frame, deadline, t) == t + PongWait

\* The read deadline after ReadMessage has taken a frame at time t: only the
\* pong handler calls SetReadDeadline.
ReadDeadlineAfter(frame, deadline, t) ==
    IF frame = "pong" THEN t + PongWait ELSE deadline

\* Mutant of ConnClose: the deferred c.Conn.Close() left out.
ConnCloseSkipped(open) == open

\* Whether Client.Conn is open after c.Conn.Close().
ConnClose(open) == FALSE

\* The marshalled WSMessage of broadcastNoteChange and of broadcastNoteDelete.
NoteUpdated(id) == [type |-> "note_updated", id |-> id]

NoteDeleted(id) == [type |-> "note_deleted", id |-> id]

Msgs == {NoteUpdated("n1"), NoteDeleted("n1")}

\* Mutant of registerClient: the client is put under every user id.
registerClientEverywhere(clients, c, u) == [v \in Users |-> clients[v] \cup {c}]

registerClient(clients, c, u) == [clients EXCEPT ![u] = @ \cup {c}]

Registered(clients, c, u) == u \in Users /\ c \in clients[u]

\* Mutant of unregisterClient: the channel is closed and the connection is
\* left in the registry.
unregisterClientKeeping(clients, c, u) == clients

unregisterClient(clients, c, u) ==
    IF Registered(clients, c, u) THEN [clients EXCEPT ![u] = @ \ {c}] ELSE clients

\* Mutant of TrySend: a plain send, which does not look at the capacity.
TrySendAlways(q, msg) == Append(q, msg)

\* Mutant of CloseCalls: close(client.Send) outside the membership test.
CloseCallsUnguarded(clients, c, u) == 1

\* The number of times unregisterClient calls close(client.Send).
CloseCalls(clients, c, u) == IF Registered(clients, c, u) THEN 1 ELSE 0

\* select { case client.Send <- message: default: } on a channel of capacity SendCap.
TrySend(q, msg) == IF Len(q) < SendCap THEN Append(q, msg) ELSE q

\* Mutant of BroadcastToUser: the test connID == excludeConnID left out.
BroadcastToAll(clients, queues, userID, msg, excludeConnID) ==
    [c \in Conns |->
        IF c \in clients[userID] THEN TrySend(queues[c], msg) ELSE queues[c]]

\* The Send queues after BroadcastToUser(userID, message, excludeConnID).
BroadcastToUser(clients, queues, userID, msg, excludeConnID) ==
    [c \in Conns |->
        IF c \in clients[userID] /\ c # excludeConnID
        THEN TrySend(queues[c], msg)
        ELSE queues[c]]

\* BroadcastToUser called once per message, in order.
RECURSIVE BroadcastEach(_, _, _, _, _)
BroadcastEach(clients, queues, userID, msgs, excludeConnID) ==
    IF msgs = <<>>
    THEN queues
    ELSE BroadcastEach(clients,
                       BroadcastToUser(clients, queues, userID, Head(msgs), excludeConnID),
                       userID, Tail(msgs), excludeConnID)

\* The value SyncHandler.Sync reads from the gin context under the key
\* "ws_connection_id": no middleware or handler sets that key, so the type
\* assertion yields the empty string.
ContextConnID == NoConn

\* The messages SyncHandler.Sync broadcasts after a successful Sync: one
\* note_updated per element of req.Changes, then one note_deleted per element
\* of req.DeletedIDs.
SyncMessages(req) ==
    [k \in 1..Len(req.changes) |-> NoteUpdated(req.changes[k].id)]
    \o [k \in 1..Len(req.deletedIDs) |-> NoteDeleted(req.deletedIDs[k])]

SyncBroadcasts(clients, queues, userID, req, connID) ==
    BroadcastEach(clients, queues, userID, SyncMessages(req), connID)

----------------------------------------------------------------------------
(* Actions of the sync endpoint *)

\* POST /sync by device d: SyncService.Sync, then one broadcast per item of
\* the request.  owed[e] collects, for every other device e of the same user,
\* the ids written since e obtained its checkpoint.
SyncBy(d) ==
    \E b \in Batches :
      /\ now + Len(b.changes) + Len(b.deletedIDs) + 1 <= MaxClock
      /\ \E ls \in LastSyncChoices(d) :
         \E r \in { Sync(notes, DeviceUser(d), Request(b, ls), now) } :
           /\ now' = r.at + 1
           /\ notes' = r.store
           /\ checkpoint' = IF r.err THEN checkpoint
                            ELSE [checkpoint EXCEPT ![d] = r.serverTimestamp]
           /\ owed' = [e \in Devices |->
                         IF e = d
                         THEN IF r.err THEN owed[e] ELSE {}
                         ELSE IF DeviceUser(e) = DeviceUser(d)
                                 /\ checkpoint[e] # NoCheckpoint
                              THEN owed[e] \cup Applied(notes, r.store)
                              ELSE owed[e]]
           /\ send' = IF r.err THEN send
                      ELSE SyncBroadcasts(hubClients, send, DeviceUser(d), b,
                                          ContextConnID)
           /\ UNCHANGED <<storeFaulty, pending, upserts, authVars, hubClients, connUser, closed,
                          pumpVars, lockVars>>

SyncCall == \E d \in Devices : SyncBy(d)

NextSync == Tick \/ SyncCall

\* One device per user.
OwnerDevices == {"dA", "dC"}

\* POST /sync by the device of each user.
SyncCallOwners == \E d \in OwnerDevices : SyncBy(d)

NextOwners == Tick \/ SyncCallOwners

\* Sync calls back to back, with no idle time between them.
NextReconcile == SyncCall

\* POST /sync by device d against a store whose calls may fail.
SyncCallFaulty ==
    \E d \in Devices, b \in Batches, failing \in {{}} \cup { {op} : op \in StoreOps } :
      /\ storeFaulty
      /\ now + Len(b.changes) + Len(b.deletedIDs) + 1 <= MaxClock
      /\ \E ls \in LastSyncChoices(d) :
         \E r \in { SyncFaulty(notes, DeviceUser(d), Request(b, ls), now, failing) } :
           /\ now' = r.at + 1
           /\ notes' = r.store
           /\ checkpoint' = IF r.err THEN checkpoint
                            ELSE [checkpoint EXCEPT ![d] = r.serverTimestamp]
           /\ owed' = [e \in Devices |->
                         IF e = d
                         THEN IF r.err THEN owed[e] ELSE {}
                         ELSE IF DeviceUser(e) = DeviceUser(d)
                                 /\ checkpoint[e] # NoCheckpoint
                              THEN owed[e] \cup Applied(notes, r.store)
                              ELSE owed[e]]
           /\ send' = IF r.err THEN send
                      ELSE SyncBroadcasts(hubClients, send, DeviceUser(d), b,
                                          ContextConnID)
           /\ UNCHANGED <<storeFaulty, pending, upserts, authVars, hubClients, connUser, closed,
                          pumpVars, lockVars>>

NextSyncFaulty == Tick \/ SyncCallFaulty

\* POST /sync by device d up to the return of GetDeletedSince: the two loops
\* and the two queries.  A call that fails returns here.
SyncQuery ==
    \E d \in Devices, b \in Batches :
      /\ ~pending[d].open
      /\ now + Len(b.changes) + Len(b.deletedIDs) + 2 <= MaxClock
      /\ \E r \in { Sync(notes, DeviceUser(d), Request(b, NoLastSync), now) } :
           /\ now' = r.at + 1
           /\ notes' = r.store
           /\ pending' = IF r.err THEN pending
                          ELSE [pending EXCEPT ![d] =
                                  [open |-> TRUE, queriedAt |-> r.at, batch |-> b]]
           /\ owed' = [e \in Devices |->
                         IF e = d
                         THEN IF r.err THEN owed[e] ELSE {}
                         ELSE IF DeviceUser(e) = DeviceUser(d)
                                 /\ (checkpoint[e] # NoCheckpoint \/ pending[e].open)
                              THEN owed[e] \cup Applied(notes, r.store)
                              ELSE owed[e]]
           /\ UNCHANGED <<storeFaulty, checkpoint, upserts, authVars, hubVars>>

\* The rest of the call: time.Now() is read for ServerTimestamp, then the
\* handler broadcasts and answers.
SyncRespond ==
    \E d \in Devices :
      /\ pending[d].open
      /\ now < MaxClock
      /\ now' = now + 1
      /\ checkpoint' = [checkpoint EXCEPT ![d] = FormatISO(now)]
      /\ pending' = [pending EXCEPT ![d] = [open |-> FALSE, queriedAt |-> @.queriedAt]]
      /\ send' = SyncBroadcasts(hubClients, send, DeviceUser(d), pending[d].batch,
                                ContextConnID)
      /\ UNCHANGED <<storeFaulty, notes, owed, upserts, authVars, hubClients, connUser, closed,
                     pumpVars, lockVars>>

\* Sync calls of several devices in progress at once.
NextSyncSplit == Tick \/ SyncQuery \/ SyncRespond

\* POST /sync by device d up to the return of GetAllByUserID: the two loops
\* and the first query.  A call that fails returns here.
SyncNotesQuery ==
    \E d \in Devices, b \in Batches :
      /\ ~pending[d].open
      /\ now + Len(b.changes) + Len(b.deletedIDs) + 2 <= MaxClock
      /\ \E a \in { ApplyBatch(notes, DeviceUser(d), b, now) } :
           /\ now' = now + StoreCalls(Request(b, NoLastSync)) + 1
           /\ notes' = a.store
           /\ pending' = IF a.err THEN pending
                          ELSE [pending EXCEPT ![d] =
                                  [open |-> TRUE,
                                   queriedAt |-> now + StoreCalls(Request(b, NoLastSync)),
                                   batch |-> b,
                                   notes |-> GetAllByUserID(a.store, DeviceUser(d), Null)]]
           /\ owed' = [e \in Devices |->
                         IF e = d
                         THEN IF a.err THEN owed[e] ELSE {}
                         ELSE IF DeviceUser(e) = DeviceUser(d)
                                 /\ (checkpoint[e] # NoCheckpoint \/ pending[e].open)
                              THEN owed[e] \cup Applied(notes, a.store)
                              ELSE owed[e]]
           /\ UNCHANGED <<storeFaulty, checkpoint, upserts, authVars, hubVars>>

\* The rest of the call: GetDeletedSince, the response with its
\* ServerTimestamp, the broadcasts.  The call leaves behind the ids of the
\* notes and the deleted ids of its response.
SyncDeletedQuery ==
    \E d \in Devices :
      /\ pending[d].open
      /\ now < MaxClock
      /\ now' = now + 1
      /\ checkpoint' = [checkpoint EXCEPT ![d] = FormatISO(now)]
      /\ pending' = [pending EXCEPT ![d] =
                       [open |-> FALSE, queriedAt |-> @.queriedAt, notes |-> @.notes,
                        deleted |-> GetDeletedSince(notes, DeviceUser(d), Null)]]
      /\ send' = SyncBroadcasts(hubClients, send, DeviceUser(d), pending[d].batch,
                                ContextConnID)
      /\ UNCHANGED <<storeFaulty, notes, owed, upserts, authVars, hubClients, connUser, closed,
                     pumpVars, lockVars>>

\* Sync calls of several devices whose delta queries interleave.
NextDeltaSplit == SyncNotesQuery \/ SyncDeletedQuery

\* POST /sync by device d with one change, up to the return of GetByID inside
\* Upsert: the change is converted and the stored row is read.  met collects
\* the devices that have a call in progress during this one.
UpsertRead ==
    \E d \in Devices, dto \in { c \in NoteDTO : c.id \in NoteIds } :
      /\ upserts[d].phase # "read"
      /\ now < MaxClock
      /\ \E note \in { dtoToNote(dto, DeviceUser(d), now) } :
           upserts' = [e \in Devices |->
                         IF e = d
                         THEN [phase |-> "read", note |-> note,
                               existing |-> GetByID(notes, note.id, note.owner),
                               met |-> { f \in Devices \ {d} : upserts[f].phase = "read" }]
                         ELSE IF upserts[e].phase = "read"
                              THEN [upserts[e] EXCEPT !.met = @ \cup {d}]
                              ELSE upserts[e]]
      /\ now' = now + 1
      /\ UNCHANGED <<storeFaulty, notes, checkpoint, owed, pending, authVars, hubVars>>

\* What Upsert does after GetByID returned existing.
UpsertDecide(store, note, existing) ==
    IF existing # NoRow
    THEN IF After(note.updatedAt, existing.updatedAt)
         THEN Update(store, note)
         ELSE [store |-> store, err |-> FALSE]
    ELSE Create(store, note)

\* The rest of that call: Upsert compares with the row it read and writes,
\* then the queries, the response and the broadcast.  The call leaves behind
\* what it submitted and whether it was newer than the row it read.
UpsertWrite ==
    \E d \in Devices :
      /\ upserts[d].phase = "read"
      /\ now <= MaxClock
      /\ \E r \in { UpsertDecide(notes, upserts[d].note, upserts[d].existing) } :
           /\ notes' = r.store
           /\ checkpoint' = IF r.err THEN checkpoint
                            ELSE [checkpoint EXCEPT ![d] = FormatISO(now)]
           /\ owed' = [e \in Devices |->
                         IF e = d
                         THEN IF r.err THEN owed[e] ELSE {}
                         ELSE IF DeviceUser(e) = DeviceUser(d)
                                 /\ checkpoint[e] # NoCheckpoint
                              THEN owed[e] \cup Applied(notes, r.store)
                              ELSE owed[e]]
           /\ send' = IF r.err THEN send
                      ELSE SyncBroadcasts(hubClients, send, DeviceUser(d),
                                          [changes |-> <<upserts[d].note>>,
                                           deletedIDs |-> <<>>],
                                          ContextConnID)
      /\ upserts' = [upserts EXCEPT ![d] =
                       [phase |-> "done", note |-> upserts[d].note,
                        newer |-> /\ upserts[d].existing # NoRow
                                  /\ After(upserts[d].note.updatedAt,
                                           upserts[d].existing.updatedAt),
                        met |-> upserts[d].met]]
      /\ now' = now + 1
      /\ UNCHANGED <<storeFaulty, pending, authVars, hubClients, connUser, closed,
                     pumpVars, lockVars>>

\* Sync calls of several devices whose Upserts interleave.
NextUpsertRace == UpsertRead \/ UpsertWrite

----------------------------------------------------------------------------
(* Actions of the hub *)

\* The string "access_token" of the Sec-WebSocket-Protocol header; as a token
\* string it is not a signed JWT.
wsAuthProtocol == [jti |-> -2, sub |-> "", typ |-> "", iat |-> 0, exp |-> 0,
                   at |-> 0, sig |-> FALSE]

\* The Authorization header: a scheme and the rest; NoAuthorization if absent.
NoAuthorization == [scheme |-> "", tok |-> NoToken]

\* The parts of the Sec-WebSocket-Protocol header, split at "," and trimmed:
\* the token is the part that follows the first "access_token" part that has
\* a successor.
ProtocolToken(parts) ==
    LET idx == { i \in 1..Len(parts) : parts[i] = wsAuthProtocol /\ i + 1 <= Len(parts) }
    IN IF idx = {} THEN NoToken
       ELSE parts[(CHOOSE i \in idx : \A j \in idx : i <= j) + 1]

BearerToken(h) == IF h.scheme = "bearer" THEN h.tok ELSE NoToken

\* The token HandleWebSocket validates; NoToken is the empty string.
ChosenToken(req) ==
    IF ProtocolToken(req.protocols) # NoToken THEN ProtocolToken(req.protocols)
    ELSE IF BearerToken(req.authorization) # NoToken THEN BearerToken(req.authorization)
    ELSE req.query

\* The answer of HandleWebSocket up to the upgrade: 401 with its error, or
\* 101 and the user id the client is created with.
Admission(req, bl, t, e1, e2) ==
    LET token == ChosenToken(req)
        v == ValidateTokenWithContext(token, bl, t, e1, e2)
    IN IF token = NoToken
       THEN [status |-> 401, error |-> "missing authentication token", userID |-> NoUser]
       ELSE IF v = "revoked"
       THEN [status |-> 401, error |-> "token has been revoked", userID |-> NoUser]
       ELSE IF v # "ok"
       THEN [status |-> 401, error |-> "invalid or expired token", userID |-> NoUser]
       ELSE [status |-> 101, error |-> "", userID |-> token.sub]

\* The places a client can put its token.
Vias == {"protocol", "authorization", "query"}

RequestVia(via, tok) ==
    [protocols |-> IF via = "protocol" THEN <<wsAuthProtocol, tok>> ELSE <<>>,
     authorization |-> IF via = "authorization" THEN [scheme |-> "bearer", tok |-> tok]
                       ELSE NoAuthorization,
     query |-> IF via = "query" THEN tok ELSE NoToken]

\* HandleWebSocket: the token is chosen and validated, then the upgrade,
\* NewClient and Hub.Register.  A request answered with 401 changes nothing.
HandleWebSocket ==
    \E c \in Conns, tok \in Presentable \cup {NoToken}, via \in Vias :
      /\ connUser[c] = NoUser
      /\ \E e1 \in Faults, e2 \in Faults :
         \E r \in { Admission(RequestVia(via, tok), blacklist, now, e1, e2) } :
           /\ r.status = 101
           /\ connUser' = [connUser EXCEPT ![c] = r.userID]
           /\ hubClients' = registerClient(hubClients, c, r.userID)
      /\ UNCHANGED <<now, storeFaulty, syncVars, authVars, send, closed,
                     pumpVars, lockVars>>

\* Hub.Unregister, sent by ReadPump when it exits.
Unregister ==
    \E c \in Conns :
      /\ connUser[c] # NoUser
      /\ hubClients' = unregisterClient(hubClients, c, connUser[c])
      /\ closed' = [closed EXCEPT ![c] = @ \/ CloseCalls(hubClients, c, connUser[c]) > 0]
      /\ send' = [send EXCEPT ![c] = IF Registered(hubClients, c, connUser[c])
                                     THEN <<>> ELSE @]
      /\ UNCHANGED <<now, storeFaulty, syncVars, authVars, connUser,
                     pumpVars, lockVars>>

Broadcast ==
    \E u \in Users, msg \in Msgs, x \in Conns \cup {NoConn} :
      /\ send' = BroadcastToUser(hubClients, send, u, msg, x)
      /\ UNCHANGED <<now, storeFaulty, syncVars, authVars, hubClients, connUser, closed,
                     pumpVars, lockVars>>

\* WritePump receives one message from Client.Send and writes it to the peer.
WritePump ==
    \E c \in Conns :
      /\ send[c] # <<>>
      /\ send' = [send EXCEPT ![c] = Tail(@)]
      /\ UNCHANGED <<now, storeFaulty, syncVars, authVars, hubClients, connUser, closed,
                     pumpVars, lockVars>>

NextHub == Login \/ HandleWebSocket \/ Unregister \/ Broadcast \/ WritePump

\* The WebSocket connection a device opens.
DeviceConn(d) == CASE d = "dA" -> "c1" [] d = "dB" -> "c2" [] OTHER -> "c3"

\* Device d holds a live connection: its connection is registered for its user.
HoldsConn(d) == DeviceConn(d) \in hubClients[DeviceUser(d)]

\* HandleWebSocket called by a device, for its own connection and with a
\* token of its own user.
DeviceConnect ==
    \E d \in Devices, tok \in Presentable, via \in Vias :
      /\ connUser[DeviceConn(d)] = NoUser
      /\ tok.sub = DeviceUser(d)
      /\ \E e1 \in Faults, e2 \in Faults :
         \E r \in { Admission(RequestVia(via, tok), blacklist, now, e1, e2) } :
           /\ r.status = 101
           /\ connUser' = [connUser EXCEPT ![DeviceConn(d)] = r.userID]
           /\ hubClients' = registerClient(hubClients, DeviceConn(d), r.userID)
      /\ UNCHANGED <<now, storeFaulty, syncVars, authVars, send, closed,
                     pumpVars, lockVars>>

\* The hub with sessions being opened and closed: devices log in, log out
\* and connect.
NextHubAuth == Login \/ Logout \/ DeviceConnect

\* The sync endpoint together with the hub: devices log in, open their
\* WebSocket connection and call POST /sync.
NextSyncHub == Login \/ DeviceConnect \/ SyncCall \/ WritePump

----------------------------------------------------------------------------
(* The goroutines of a connection *)

\* HandleWebSocket from the upgrade on, for a request whose token was
\* accepted for user u: Upgrade, NewClient, Hub.Register.
Upgrade(c) ==
    \E u \in Users :
      /\ connUser[c] = NoUser
      /\ connUser' = [connUser EXCEPT ![c] = u]
      /\ hubClients' = registerClient(hubClients, c, u)
      /\ connOpen' = [connOpen EXCEPT ![c] = TRUE]
      /\ UNCHANGED <<now, storeFaulty, syncVars, authVars, send, closed,
                     readPump, writePump, readDeadline, nextPing, readErr, lockVars>>

\* go client.ReadPump(), up to the loop: the first read deadline is set.
ReadPumpStart(c) ==
    /\ connUser[c] # NoUser
    /\ readPump[c] = NotStarted
    /\ readPump' = [readPump EXCEPT ![c] = "reading"]
    /\ readDeadline' = [readDeadline EXCEPT ![c] = now + PongWait]
    /\ UNCHANGED <<now, storeFaulty, syncVars, authVars, hubClients, connUser, send,
                   closed, writePump, connOpen, nextPing, readErr, lockVars>>

\* ReadMessage takes a frame that arrived before the deadline: the pong
\* handler for a pong, handleMessage for a text message.
ReadFrame(c, frame) ==
    /\ readPump[c] = "reading"
    /\ connOpen[c]
    /\ now < readDeadline[c]
    /\ readDeadline' = [readDeadline EXCEPT ![c] = ReadDeadlineAfter(frame, @, now)]
    /\ send' = [send EXCEPT ![c] = IF frame = "ping" THEN TrySend(@, PongMessage)
                                   ELSE @]
    /\ UNCHANGED <<now, storeFaulty, syncVars, authVars, hubClients, connUser,
                   closed, readPump, writePump, connOpen, nextPing, readErr, lockVars>>

\* ReadMessage with whatever the peer sent.
ReadMessage(c) == \E frame \in Frames : ReadFrame(c, frame)

\* ReadMessage returns err: the loop is left and the deferred function
\* begins with Hub.Unregister.
ReadFail(c, err) ==
    /\ readPump[c] = "reading"
    /\ CASE err = "closed" -> ~connOpen[c]
         [] err = "timeout" -> connOpen[c] /\ now >= readDeadline[c]
         [] OTHER -> connOpen[c]
    /\ readErr' = [readErr EXCEPT ![c] = err]
    /\ readPump' = [readPump EXCEPT ![c] = "unregister"]
    /\ UNCHANGED <<now, storeFaulty, syncVars, authVars, hubClients, connUser, send,
                   closed, writePump, connOpen, readDeadline, nextPing, lockVars>>

\* The peer closes or breaks the connection.
ReadError(c) == ReadFail(c, "peer")

\* ReadMessage on a connection that the server has closed, or whose read
\* deadline has passed.
ReadAbort(c) == ReadFail(c, "closed") \/ ReadFail(c, "timeout")

\* Hub.Run receives the client from the unregister channel and calls
\* unregisterClient.
RunUnregister(c) ==
    /\ readPump[c] = "unregister"
    /\ hubClients' = unregisterClient(hubClients, c, connUser[c])
    /\ closed' = [closed EXCEPT ![c] = @ \/ CloseCalls(hubClients, c, connUser[c]) > 0]
    /\ send' = [send EXCEPT ![c] = IF Registered(hubClients, c, connUser[c])
                                   THEN <<>> ELSE @]
    /\ readPump' = [readPump EXCEPT ![c] = "closing"]
    /\ UNCHANGED <<now, storeFaulty, syncVars, authVars, connUser, writePump,
                   connOpen, readDeadline, nextPing, readErr, lockVars>>

\* The end of ReadPump's deferred function: c.Conn.Close().
ReadPumpClose(c) ==
    /\ readPump[c] = "closing"
    /\ connOpen' = [connOpen EXCEPT ![c] = ConnClose(@)]
    /\ readPump' = [readPump EXCEPT ![c] = "exited"]
    /\ UNCHANGED <<now, storeFaulty, syncVars, authVars, hubClients, connUser, send,
                   closed, writePump, readDeadline, nextPing, readErr, lockVars>>

\* go client.WritePump(), up to the loop: the ticker is created.
WritePumpStart(c) ==
    /\ connUser[c] # NoUser
    /\ writePump[c] = NotStarted
    /\ writePump' = [writePump EXCEPT ![c] = "running"]
    /\ nextPing' = [nextPing EXCEPT ![c] = now + PingPeriod]
    /\ UNCHANGED <<now, storeFaulty, syncVars, authVars, hubClients, connUser, send,
                   closed, readPump, connOpen, readDeadline, readErr, lockVars>>

\* WritePump receives a message from Client.Send and writes it; a failed
\* write ends the loop and the deferred function closes the connection.
WriteMessage(c) ==
    \E ok \in BOOLEAN :
      /\ writePump[c] = "running"
      /\ send[c] # <<>>
      /\ ok => connOpen[c]
      /\ send' = [send EXCEPT ![c] = Tail(@)]
      /\ writePump' = [writePump EXCEPT ![c] = IF ok THEN @ ELSE "exited"]
      /\ connOpen' = [connOpen EXCEPT ![c] = IF ok THEN @ ELSE ConnClose(@)]
      /\ UNCHANGED <<now, storeFaulty, syncVars, authVars, hubClients, connUser,
                     closed, readPump, readDeadline, nextPing, readErr, lockVars>>

\* WritePump finds Client.Send closed: the close message, return, and the
\* deferred function closes the connection.
WriteClose(c) ==
    /\ writePump[c] = "running"
    /\ send[c] = <<>>
    /\ closed[c]
    /\ writePump' = [writePump EXCEPT ![c] = "exited"]
    /\ connOpen' = [connOpen EXCEPT ![c] = ConnClose(@)]
    /\ UNCHANGED <<now, storeFaulty, syncVars, authVars, hubClients, connUser, send,
                   closed, readPump, readDeadline, nextPing, readErr, lockVars>>

\* WritePump receives from the ticker and writes a ping; a failed write ends
\* the loop like a failed message write.
WritePing(c) ==
    \E ok \in BOOLEAN :
      /\ writePump[c] = "running"
      /\ now >= nextPing[c]
      /\ ok => connOpen[c]
      /\ nextPing' = [nextPing EXCEPT ![c] = @ + PingPeriod]
      /\ writePump' = [writePump EXCEPT ![c] = IF ok THEN @ ELSE "exited"]
      /\ connOpen' = [connOpen EXCEPT ![c] = IF ok THEN @ ELSE ConnClose(@)]
      /\ UNCHANGED <<now, storeFaulty, syncVars, authVars, hubClients, connUser, send,
                     closed, readPump, readDeadline, readErr, lockVars>>

\* The connection whose goroutines are followed.
PumpConns == {"c1"}

NextPumps ==
    \/ Tick
    \/ Broadcast
    \/ \E c \in PumpConns :
         \/ Upgrade(c)
         \/ ReadPumpStart(c)
         \/ ReadMessage(c)
         \/ ReadError(c)
         \/ ReadAbort(c)
         \/ RunUnregister(c)
         \/ ReadPumpClose(c)
         \/ WritePumpStart(c)
         \/ WriteMessage(c)
         \/ WriteClose(c)
         \/ WritePing(c)

\* The scheduler runs every goroutine that can take a step: a started
\* goroutine begins, a read on a closed or expired connection returns,
\* Hub.Run serves its unregister channel, a deferred function runs to its
\* end, and WritePump notices the closed Send channel.
PumpFairness ==
    \A c \in PumpConns :
      /\ WF_vars(ReadPumpStart(c))
      /\ WF_vars(ReadAbort(c))
      /\ WF_vars(RunUnregister(c))
      /\ WF_vars(ReadPumpClose(c))
      /\ WF_vars(WritePumpStart(c))
      /\ WF_vars(WriteClose(c))

----------------------------------------------------------------------------
(* The Hub's goroutine, its lock and its channels *)

\* The goroutines that call BroadcastToUser.
Broadcasters == {"b1", "b2"}
NoBroadcast == [pc |-> "idle"]

\* Hub.Run blocked in its select.
Selecting == [pc |-> "select", op |-> "", c |-> NoConn]

\* The connections that are opened and closed.
LockConns == {"c1", "c2"}

\* Mutant of SendReady: a plain send, which blocks while the queue is full.
SendReadyBlocking(q) == Len(q) < SendCap

\* The select of BroadcastToUser: it proceeds whatever the queue holds.
SendReady(q) == TRUE

\* Hub.mu.RLock: granted unless Hub.Run holds or awaits the write lock.
RLockReady(run) == run.pc = "select"

\* Hub.mu.Lock: granted when no caller holds the read lock.
LockReady(readers) == readers = {}

\* The user of the accepted token.  The Hub treats users alike, so the
\* second connection is taken to be u1's: the first one is then a
\* connection of the same user or of another one.
HandlerUsers(c) == IF c = "c1" THEN Users ELSE {"u1"}

\* HandleWebSocket after the upgrade: NewClient, then Hub.Register, which
\* blocks on the register channel.
HandlerRegister(c) ==
    \E u \in HandlerUsers(c) :
      /\ handler[c] = NotStarted
      /\ connUser[c] = NoUser
      /\ connUser' = [connUser EXCEPT ![c] = u]
      /\ connOpen' = [connOpen EXCEPT ![c] = TRUE]
      /\ handler' = [handler EXCEPT ![c] = "register"]
      /\ UNCHANGED <<now, storeFaulty, syncVars, authVars, hubClients, send, closed,
                     readPump, writePump, readDeadline, nextPing, readErr,
                     hubRun, mu, bcast>>

\* Hub.Run receives from the register channel: Register returns to the
\* handler, and Run calls registerClient, which asks for the write lock.
RunReceiveRegister(c) ==
    /\ hubRun.pc = "select"
    /\ handler[c] = "register"
    /\ hubRun' = [pc |-> "lock", op |-> "register", c |-> c]
    /\ handler' = [handler EXCEPT ![c] = "registered"]
    /\ UNCHANGED <<now, storeFaulty, syncVars, authVars, hubClients, connUser, send,
                   closed, pumpVars, mu, bcast>>

\* go client.ReadPump(), started by the handler once Register has returned.
LoopStart(c) ==
    /\ handler[c] = "registered"
    /\ readPump[c] = NotStarted
    /\ readPump' = [readPump EXCEPT ![c] = "reading"]
    /\ UNCHANGED <<now, storeFaulty, syncVars, authVars, hubClients, connUser, send,
                   closed, writePump, connOpen, readDeadline, nextPing, readErr,
                   lockVars>>

\* The read loop takes a ping message: handleMessage sends the pong on
\* Client.Send, without the lock.
LoopPong(c) ==
    /\ readPump[c] = "reading"
    /\ send' = [send EXCEPT ![c] = TrySend(@, PongMessage)]
    /\ UNCHANGED <<now, storeFaulty, syncVars, authVars, hubClients, connUser,
                   closed, pumpVars, lockVars>>

\* ReadMessage returns an error: the deferred function calls Hub.Unregister,
\* which blocks on the unregister channel.
LoopFail(c) ==
    /\ readPump[c] = "reading"
    /\ readPump' = [readPump EXCEPT ![c] = "unregister"]
    /\ UNCHANGED <<now, storeFaulty, syncVars, authVars, hubClients, connUser, send,
                   closed, writePump, connOpen, readDeadline, nextPing, readErr,
                   lockVars>>

\* Hub.Run receives from the unregister channel: Unregister returns to the
\* read loop, and Run calls unregisterClient, which asks for the write lock.
RunReceiveUnregister(c) ==
    /\ hubRun.pc = "select"
    /\ readPump[c] = "unregister"
    /\ hubRun' = [pc |-> "lock", op |-> "unregister", c |-> c]
    /\ readPump' = [readPump EXCEPT ![c] = "closing"]
    /\ UNCHANGED <<now, storeFaulty, syncVars, authVars, hubClients, connUser, send,
                   closed, writePump, connOpen, readDeadline, nextPing, readErr,
                   mu, handler, bcast>>

\* registerClient under the write lock, from Lock to the deferred Unlock.
RunRegisterClient ==
    /\ hubRun.pc = "lock"
    /\ hubRun.op = "register"
    /\ LockReady(mu)
    /\ hubClients' = registerClient(hubClients, hubRun.c, connUser[hubRun.c])
    /\ hubRun' = Selecting
    /\ UNCHANGED <<now, storeFaulty, syncVars, authVars, connUser, send, closed,
                   pumpVars, mu, handler, bcast>>

\* unregisterClient under the write lock, from Lock to the deferred Unlock.
RunUnregisterClient ==
    /\ hubRun.pc = "lock"
    /\ hubRun.op = "unregister"
    /\ LockReady(mu)
    /\ hubClients' = unregisterClient(hubClients, hubRun.c, connUser[hubRun.c])
    /\ closed' = [closed EXCEPT ![hubRun.c] =
                    @ \/ CloseCalls(hubClients, hubRun.c, connUser[hubRun.c]) > 0]
    /\ send' = [send EXCEPT ![hubRun.c] =
                  IF Registered(hubClients, hubRun.c, connUser[hubRun.c])
                  THEN <<>> ELSE @]
    /\ hubRun' = Selecting
    /\ UNCHANGED <<now, storeFaulty, syncVars, authVars, connUser, pumpVars, mu,
                   handler, bcast>>

\* A goroutine calls BroadcastToUser, excluding no connection, and asks for
\* the read lock.
BroadcastCall(b) ==
    \E u \in Users :
      /\ bcast[b].pc = "idle"
      /\ bcast' = [bcast EXCEPT ![b] = [pc |-> "rlock", user |-> u]]
      /\ UNCHANGED <<now, storeFaulty, syncVars, authVars, hubClients, connUser, send,
                     closed, pumpVars, hubRun, mu, handler>>

\* RLock is granted; the loop will range over the user's connections.
BroadcastRLock(b) ==
    /\ bcast[b].pc = "rlock"
    /\ RLockReady(hubRun)
    /\ mu' = mu \cup {b}
    /\ bcast' = [bcast EXCEPT ![b] =
                   [pc |-> "range", user |-> @.user, todo |-> hubClients[@.user]]]
    /\ UNCHANGED <<now, storeFaulty, syncVars, authVars, hubClients, connUser, send,
                   closed, pumpVars, hubRun, handler>>

\* One iteration of the loop: the select on the connection's Send channel.
BroadcastSend(b) ==
    \E c \in Conns :
      /\ bcast[b].pc = "range"
      /\ c \in bcast[b].todo
      /\ SendReady(send[c])
      /\ send' = [send EXCEPT ![c] = TrySend(@, NoteUpdated("n1"))]
      /\ bcast' = [bcast EXCEPT ![b].todo = @ \ {c}]
      /\ UNCHANGED <<now, storeFaulty, syncVars, authVars, hubClients, connUser,
                     closed, pumpVars, hubRun, mu, handler>>

\* The loop is over: the deferred RUnlock, and BroadcastToUser returns.
BroadcastReturn(b) ==
    /\ bcast[b].pc = "range"
    /\ bcast[b].todo = {}
    /\ mu' = mu \ {b}
    /\ bcast' = [bcast EXCEPT ![b] = NoBroadcast]
    /\ UNCHANGED <<now, storeFaulty, syncVars, authVars, hubClients, connUser, send,
                   closed, pumpVars, hubRun, handler>>

\* The calls into the Hub and the goroutine that serves them.
NextCalls ==
    \/ RunRegisterClient
    \/ RunUnregisterClient
    \/ \E c \in LockConns :
         \/ HandlerRegister(c)
         \/ RunReceiveRegister(c)
         \/ LoopStart(c)
         \/ LoopFail(c)
         \/ RunReceiveUnregister(c)
    \/ \E b \in Broadcasters :
         \/ BroadcastCall(b)
         \/ BroadcastRLock(b)
         \/ BroadcastSend(b)
         \/ BroadcastReturn(b)

\* The same with the traffic of the Send channels: the pong replies of the
\* read loops and the WritePump that takes messages out.
NextLocks ==
    \/ NextCalls
    \/ WritePump
    \/ \E c \in LockConns : LoopPong(c)

\* Hub.Run is running and the scheduler runs every goroutine that can take
\* a step: Run serves its channels and takes the write lock when it is
\* free, and a broadcaster takes the read lock, goes through its loop and
\* releases the lock.  Peers, and the WritePump that serves them, may be
\* as slow as they like.
LockFairness ==
    /\ WF_vars(RunRegisterClient)
    /\ WF_vars(RunUnregisterClient)
    /\ \A c \in LockConns :
         /\ WF_vars(RunReceiveRegister(c))
         /\ WF_vars(RunReceiveUnregister(c))
    /\ \A b \in Broadcasters :
         /\ WF_vars(BroadcastRLock(b))
         /\ WF_vars(BroadcastSend(b))
         /\ WF_vars(BroadcastReturn(b))

----------------------------------------------------------------------------
(* Initial state and specifications *)

Init ==
    /\ now = 0
    /\ storeFaulty = FALSE
    /\ notes = [i \in NoteIds |-> NoRow]
    /\ checkpoint = [d \in Devices |-> NoCheckpoint]
    /\ owed = [d \in Devices |-> {}]
    /\ pending = [d \in Devices |-> NoPending]
    /\ upserts = [d \in Devices |-> NoUpsert]
    /\ tokens = {}
    /\ blacklist = {}
    /\ password = [u \in Users |-> 0]
    /\ rotated = {}
    /\ loggedOut = {}
    /\ logoutAllAt = [u \in Users |-> Null]
    /\ pwChangedAt = [u \in Users |-> Null]
    /\ refreshCalls = [k \in Callers |-> NoCall]
    /\ hubClients = [u \in Users |-> {}]
    /\ connUser = [c \in Conns |-> NoUser]
    /\ send = [c \in Conns |-> <<>>]
    /\ closed = [c \in Conns |-> FALSE]
    /\ readPump = [c \in Conns |-> NotStarted]
    /\ writePump = [c \in Conns |-> NotStarted]
    /\ connOpen = [c \in Conns |-> FALSE]
    /\ readDeadline = [c \in Conns |-> NoDeadline]
    /\ nextPing = [c \in Conns |-> NoDeadline]
    /\ readErr = [c \in Conns |-> NoError]
    /\ hubRun = Selecting
    /\ mu = {}
    /\ handler = [c \in Conns |-> NotStarted]
    /\ bcast = [b \in Broadcasters |-> NoBroadcast]

\* The same, with a durable store whose calls may fail.
InitFaulty ==
    /\ now = 0
    /\ storeFaulty = TRUE
    /\ notes = [i \in NoteIds |-> NoRow]
    /\ checkpoint = [d \in Devices |-> NoCheckpoint]
    /\ owed = [d \in Devices |-> {}]
    /\ pending = [d \in Devices |-> NoPending]
    /\ upserts = [d \in Devices |-> NoUpsert]
    /\ tokens = {}
    /\ blacklist = {}
    /\ password = [u \in Users |-> 0]
    /\ rotated = {}
    /\ loggedOut = {}
    /\ logoutAllAt = [u \in Users |-> Null]
    /\ pwChangedAt = [u \in Users |-> Null]
    /\ refreshCalls = [k \in Callers |-> NoCall]
    /\ hubClients = [u \in Users |-> {}]
    /\ connUser = [c \in Conns |-> NoUser]
    /\ send = [c \in Conns |-> <<>>]
    /\ closed = [c \in Conns |-> FALSE]
    /\ readPump = [c \in Conns |-> NotStarted]
    /\ writePump = [c \in Conns |-> NotStarted]
    /\ connOpen = [c \in Conns |-> FALSE]
    /\ readDeadline = [c \in Conns |-> NoDeadline]
    /\ nextPing = [c \in Conns |-> NoDeadline]
    /\ readErr = [c \in Conns |-> NoError]
    /\ hubRun = Selecting
    /\ mu = {}
    /\ handler = [c \in Conns |-> NotStarted]
    /\ bcast = [b \in Broadcasters |-> NoBroadcast]

SpecSync == Init /\ [][NextSync]_vars

SpecAuth == Init /\ [][NextAuth]_vars

SpecAuthFaulty == InitFaulty /\ [][NextAuth]_vars

SpecHub == Init /\ [][NextHub]_vars

SpecReconcile == Init /\ [][NextReconcile]_vars

SpecSyncSplit == Init /\ [][NextSyncSplit]_vars

SpecSyncHub == Init /\ [][NextSyncHub]_vars

SpecUpsertRace == Init /\ [][NextUpsertRace]_vars

SpecHubAuthFaulty == InitFaulty /\ [][NextHubAuth]_vars

SpecSyncFaulty == InitFaulty /\ [][NextSyncFaulty]_vars

SpecOwners == Init /\ [][NextOwners]_vars

SpecDeltaSplit == Init /\ [][NextDeltaSplit]_vars

SpecRefreshRace == Init /\ [][NextRefreshRace]_vars

SpecLocks == Init /\ [][NextLocks]_vars

SpecCalls == Init /\ [][NextCalls]_vars /\ LockFairness

SpecPumps == Init /\ [][NextPumps]_vars /\ PumpFairness

----------------------------------------------------------------------------
(* Helpers for the properties of the sync subsystem *)

Ids(rs) == { x.id : x \in rs }

Live(store, i, u) ==
    store[i] # NoRow /\ store[i].owner = u /\ store[i].deletedAt = Null

Tombstoned(store, i) == store[i] # NoRow /\ store[i].deletedAt # Null

\* The store after one Sync call that submits the single change dto.
SubmitChange(store, u, dto, t) ==
    ApplyBatch(store, u, [changes |-> <<dto>>, deletedIDs |-> <<>>], t).store

\* Pairs of submissions for one id with parseable updatedAt T1 < T2.
OrderedPairs ==
    { p \in NoteDTO \X NoteDTO :
        /\ p[1].id \in NoteIds /\ p[1].id = p[2].id
        /\ ParseOK(p[1].updatedAt) /\ ParseOK(p[2].updatedAt)
        /\ p[1].updatedAt < p[2].updatedAt }

ThenOrder(store, u, a, b, t) == SubmitChange(SubmitChange(store, u, a, t), u, b, t + 2)

----------------------------------------------------------------------------
(* C1 *)

----------------------------------------------------------------------------
(* C2 *)

\* C2: a Sync by a device that presents the serverTimestamp c of its previous
\* response returns in changedNotes exactly the live notes of its user with
\* updatedAt > c and in deletedIds exactly the tombstones of its user with
\* deletedAt > c, both evaluated on the store after the call's own batch.
C2_DeltaComplete ==
    \A d \in Devices, b \in Batches :
      checkpoint[d] # NoCheckpoint =>
        \A r \in { Sync(notes, DeviceUser(d), Request(b, checkpoint[d]), now) } :
          ~r.err =>
            /\ r.notes = { noteToDTO(i, r.store[i]) :
                             i \in { j \in NoteIds :
                                       /\ Live(r.store, j, DeviceUser(d))
                                       /\ r.store[j].updatedAt > checkpoint[d] * TicksPerMilli } }
            /\ r.deleted = { j \in NoteIds :
                               /\ Tombstoned(r.store, j)
                               /\ r.store[j].owner = DeviceUser(d)
                               /\ r.store[j].deletedAt > checkpoint[d] * TicksPerMilli }

\* Witness of C2: a device holds a checkpoint while its user has a live note
\* newer than the checkpoint, and another note that is not newer or is a
\* tombstone.
C2_Witness ==
    \E d \in Devices, i \in NoteIds, j \in NoteIds :
      /\ checkpoint[d] # NoCheckpoint
      /\ i # j
      /\ Live(notes, i, DeviceUser(d))
      /\ notes[i].updatedAt > checkpoint[d] * TicksPerMilli
      /\ notes[j] # NoRow /\ notes[j].owner = DeviceUser(d)
      /\ (notes[j].deletedAt # Null \/ notes[j].updatedAt <= checkpoint[d] * TicksPerMilli)

----------------------------------------------------------------------------
(* C3 *)

\* C3 (as stated): every note written by another device of the same user
\* after device d obtained its checkpoint c is returned, in changedNotes or in
\* deletedIds, by d's next Sync presenting c.
C3_Original ==
    \A d \in Devices, b \in Batches :
      checkpoint[d] # NoCheckpoint =>
        \A r \in { Sync(notes, DeviceUser(d), Request(b, checkpoint[d]), now) } :
          ~r.err => owed[d] \subseteq (Ids(r.notes) \cup r.deleted)

----------------------------------------------------------------------------
(* C7 *)

----------------------------------------------------------------------------
(* C8 *)

DeleteOnly(ids, ls) == [changes |-> <<>>, deletedIDs |-> ids, lastSync |-> ls]

\* C8: a Sync that submits deletion id i returns no error whether the note is
\* live, already tombstoned, absent or not the user's; submitting i again, in
\* a second Sync or twice in the same batch, returns no error and leaves the
\* note with the deletedAt of the first deletion; an id that is not a live
\* note of the user leaves the store unchanged.
C8_DeletionIdempotent ==
    \A u \in Users, i \in DeletedIDs, ls \in LastSyncChoices("dA") :
      \A r1 \in { Sync(notes, u, DeleteOnly(<<i>>, ls), now) } :
      \A r2 \in { Sync(r1.store, u, DeleteOnly(<<i>>, ls), r1.at + 1) } :
      \A rr \in { Sync(notes, u, DeleteOnly(<<i, i>>, ls), now) } :
        /\ ~r1.err /\ ~r2.err /\ ~rr.err
        /\ r2.store = r1.store
        /\ rr.store = r1.store
        /\ (i \notin NoteIds \/ ~Live(notes, i, u)) => r1.store = notes

\* Witness of C8: a note has been soft-deleted and time has passed since, so
\* that a repeated deletion would carry a later NOW().
C8_Witness ==
    \E i \in NoteIds : Tombstoned(notes, i) /\ now > notes[i].deletedAt + 1

----------------------------------------------------------------------------
(* C9 *)

AnyLastSync == {NoLastSync, BadTime} \cup (0..MaxClientMilli)

\* C9: no Sync call, by any user with any batch and any lastSync, changes the
\* row of a tombstoned note (deletedAt, updatedAt, fields) or returns the
\* note in changedNotes.
C9_TombstonePermanent ==
    \A i \in NoteIds :
      Tombstoned(notes, i) =>
        \A u \in Users, b \in Batches :
          \A a \in { ApplyBatch(notes, u, b, now) } :
            /\ a.store[i] = notes[i]
            /\ \A ls \in AnyLastSync :
                 i \notin Ids(Delta(a.store, u, ParseLastSync(ls)).notes)

\* Witness of C9: a tombstoned note whose client-supplied timestamps are all
\* older than a change a device can still submit for the same id.
C9_Witness ==
    \E i \in NoteIds :
      /\ Tombstoned(notes, i)
      /\ notes[i].updatedAt < MaxClientMilli * TicksPerMilli
      /\ now + 2 <= MaxClock

----------------------------------------------------------------------------
(* Helpers for the properties of the token service *)

Unexpired(tok) == now < tok.exp

\* The validation that applies to a token of its own type.
ValidateOwnType(tok, e1, e2) == Validate(tok, tok.typ, blacklist, now, e1, e2)

----------------------------------------------------------------------------
(* C4 *)

\* C4 (as stated): after LogoutAll for user u at instant c, validation returns
\* Revoked for every unexpired token of u issued before c, and succeeds for
\* every unexpired, not individually blacklisted token of u issued after c.
C4_Original ==
    \A u \in Users :
      logoutAllAt[u] # Null =>
        \A tok \in { x \in tokens : x.sub = u /\ Unexpired(x) } :
          /\ tok.at < logoutAllAt[u] => ValidateOwnType(tok, FALSE, FALSE) = "revoked"
          /\ (tok.at > logoutAllAt[u] /\ ~IsTokenRevoked(blacklist, tok.jti))
                => ValidateOwnType(tok, FALSE, FALSE) = "ok"

----------------------------------------------------------------------------
(* C5 *)

\* C5 (as stated): once RefreshTokenPair(r) has returned a new pair, every
\* later RefreshTokenPair(r) and ValidateRefresh(r) fails with ErrTokenRevoked
\* and issues no tokens.
C5_Original ==
    \A tok \in { x \in tokens : x.jti \in rotated } :
      \A e1 \in Faults, e2 \in Faults, e3 \in Faults :
        /\ ValidateRefreshTokenWithContext(tok, blacklist, now, e1, e2) = "revoked"
        /\ RefreshTokenPair(tok, tokens, blacklist, now, e1, e2, e3).res = "revoked"
        /\ RefreshTokenPair(tok, tokens, blacklist, now, e1, e2, e3).issued = {}

----------------------------------------------------------------------------
(* C6 *)

\* C6 (as stated): whatever the outcomes of the store lookups, no validation
\* and no RefreshTokenPair accepts a token whose id is blacklisted or whose
\* issuedAt precedes the latest revoke-all cutoff of its subject.
C6_Original ==
    \A tok \in tokens, e1 \in Faults, e2 \in Faults, e3 \in Faults :
      (\/ IsTokenRevoked(blacklist, tok.jti)
       \/ (GetUserRevokeAllTime(blacklist, tok.sub) # Null
           /\ tok.iat < GetUserRevokeAllTime(blacklist, tok.sub)))
      => /\ ValidateTokenWithContext(tok, blacklist, now, e1, e2) # "ok"
         /\ ValidateRefreshTokenWithContext(tok, blacklist, now, e1, e2) # "ok"
         /\ RefreshTokenPair(tok, tokens, blacklist, now, e1, e2, e3).res # "ok"

----------------------------------------------------------------------------
(* C10 *)

\* C10 (as stated): after ChangePassword succeeded for user u, a revoke-all
\* marker of u is recorded, and every token of u issued before the change is
\* rejected by validation and by RefreshTokenPair.
C10_Original ==
    \A u \in Users :
      pwChangedAt[u] # Null =>
        /\ GetUserRevokeAllTime(blacklist, u) # Null
        /\ \A tok \in { x \in tokens : x.sub = u /\ x.at < pwChangedAt[u] } :
             /\ ValidateOwnType(tok, FALSE, FALSE) # "ok"
             /\ RefreshTokenPair(tok, tokens, blacklist, now, FALSE, FALSE, FALSE).res # "ok"

----------------------------------------------------------------------------
(* C11 *)

\* The messages a call appended to the queue of connection c.
Enqueued(before, after, c) ==
    { after[c][k] : k \in (Len(before[c]) + 1)..Len(after[c]) }

\* C11 (as stated): when a device that holds live connection X calls the Sync
\* endpoint, the broadcasts of that Sync enqueue nothing to connection X.
C11_Original ==
    \A d \in Devices, b \in Batches :
      HoldsConn(d) =>
        \A r \in { Sync(notes, DeviceUser(d), Request(b, NoLastSync), now) } :
          ~r.err =>
            SyncBroadcasts(hubClients, send, DeviceUser(d), b, ContextConnID)[DeviceConn(d)]
              = send[DeviceConn(d)]

----------------------------------------------------------------------------
(* C12 *)

\* The messages of the mutations a Sync actually applied: the change if the
\* loop over the changes altered the store, the deletion if the loop over the
\* deletions did.
AppliedMessages(store, userID, req, t) ==
    LET c == ApplyChanges(store, userID, req.changes, t)
        a == ApplyBatch(store, userID, req, t)
    IN { NoteUpdated(req.changes[k].id) :
           k \in { j \in 1..Len(req.changes) : c.store # store } }
       \cup { NoteDeleted(req.deletedIDs[k]) :
                k \in { j \in 1..Len(req.deletedIDs) : a.store # c.store } }

\* C12 (as stated): a successful Sync enqueues, to any connection, only
\* messages of mutations that this call applied to the store.
C12_Original ==
    \A d \in Devices, b \in Batches :
      \A r \in { Sync(notes, DeviceUser(d), Request(b, NoLastSync), now) } :
        ~r.err =>
          \A c \in Conns :
            Enqueued(send,
                     SyncBroadcasts(hubClients, send, DeviceUser(d), b, ContextConnID),
                     c)
              \subseteq AppliedMessages(notes, DeviceUser(d), b, now)

----------------------------------------------------------------------------
(* C13 *)

\* C13 (as stated): with the store available, Sync returns success for every
\* batch, whatever items it contains.
C13_Original ==
    \A u \in Users, b \in Batches :
      ~Sync(notes, u, Request(b, NoLastSync), now).err

----------------------------------------------------------------------------
(* C14 *)

\* The change whose id is not a UUID.
BadDTO == CHOOSE c \in NoteDTO : c.id = BadId

\* A batch with its malformed items taken out.
WellFormed(b) ==
    [changes |-> SelectSeq(b.changes, LAMBDA c : c.id \in NoteIds),
     deletedIDs |-> SelectSeq(b.deletedIDs, LAMBDA i : i \in NoteIds)]

\* Batch b with a malformed item put before its changes and before its
\* deletions, or after its changes and after its deletions.
WithMalformed(b) ==
    { [changes |-> <<BadDTO>> \o b.changes, deletedIDs |-> <<BadId>> \o b.deletedIDs],
      [changes |-> b.changes \o <<BadDTO>>, deletedIDs |-> b.deletedIDs \o <<BadId>>] }

\* The batches without malformed items.
WellFormedBatches == { b \in Batches : WellFormed(b) = b }

\* C14: a Sync whose batch contains malformed items leaves the store, fails
\* or succeeds, and returns changedNotes and deletedIds exactly as the Sync
\* of the same batch without the malformed items does; a batch of malformed
\* items only leaves the store unchanged.
C14_MalformedSkipped ==
    \A u \in Users, b \in WellFormedBatches :
      \A clean \in { Sync(notes, u, Request(b, NoLastSync), now) } :
        \A v \in WithMalformed(b) :
          \A dirty \in { Sync(notes, u, Request(v, NoLastSync), now) } :
            /\ dirty.err = clean.err
            /\ dirty.store = clean.store
            /\ dirty.notes = clean.notes
            /\ dirty.deleted = clean.deleted
            /\ (b.changes = <<>> /\ b.deletedIDs = <<>>) => dirty.store = notes

\* Witness of C14: the store holds a live note and a tombstone, so that the
\* well-formed items next to a malformed one update, are discarded, delete
\* or fail.
C14_Witness ==
    \E i \in NoteIds, j \in NoteIds :
      /\ notes[i] # NoRow /\ notes[i].deletedAt = Null
      /\ Tombstoned(notes, j)

----------------------------------------------------------------------------
(* C15 *)

\* Upsert discards the change: the note is stored live for the user and the
\* incoming updatedAt is not after the stored one.
Discarded(store, userID, dto, t) ==
    /\ dto.id \in NoteIds
    /\ Live(store, dto.id, userID)
    /\ ~After(dtoToNote(dto, userID, t).updatedAt, store[dto.id].updatedAt)

\* C15 (as stated): whenever a Sync discards an incoming change because the
\* stored version is not older, changedNotes of the same response contains
\* the stored version of that note, whatever checkpoint the device presents.
C15_Original ==
    \A d \in Devices, dto \in NoteDTO :
      Discarded(notes, DeviceUser(d), dto, now) =>
        \A ls \in LastSyncChoices(d) :
          \A r \in { Sync(notes, DeviceUser(d),
                          [changes |-> <<dto>>, deletedIDs |-> <<>>, lastSync |-> ls],
                          now) } :
            /\ ~r.err
            /\ noteToDTO(dto.id, notes[dto.id]) \in r.notes

----------------------------------------------------------------------------
(* C16 *)

\* C16 (as stated): the serverTimestamp a Sync returns is the clock value read
\* before its queries ran, so no write committed after those queries has a
\* server time earlier than the returned checkpoint: no tombstone of the
\* user stamped after the queries of a device's last Sync is older than the
\* checkpoint that Sync returned.
C16_Original ==
    \A d \in Devices :
      (pending[d].queriedAt # Null /\ ~pending[d].open) =>
        /\ ParseISO(checkpoint[d]) <= pending[d].queriedAt
        /\ \A i \in NoteIds :
             (/\ Tombstoned(notes, i)
              /\ notes[i].owner = DeviceUser(d)
              /\ notes[i].deletedAt > pending[d].queriedAt)
             => notes[i].deletedAt >= ParseISO(checkpoint[d])

----------------------------------------------------------------------------
(* C17 *)

\* The blacklist holds the id of tok, or a revoke-all marker of its subject
\* later than its issuedAt.
RevokedInStore(tok) ==
    \/ IsTokenRevoked(blacklist, tok.jti)
    \/ /\ GetUserRevokeAllTime(blacklist, tok.sub) # Null
       /\ tok.iat < GetUserRevokeAllTime(blacklist, tok.sub)

\* C17 (as stated): ValidateAccess returns a user id only for a token that is
\* correctly signed, of type access, unexpired and not revoked; an unexpired
\* refresh token presented to ValidateAccess fails with Invalid; an unexpired
\* access token presented to ValidateRefresh or RefreshTokenPair fails with
\* Invalid and no tokens are issued.
C17_Original ==
    \A tok \in Presentable, e1 \in Faults, e2 \in Faults, e3 \in Faults :
      /\ ValidateTokenWithContext(tok, blacklist, now, e1, e2) = "ok"
           => /\ tok.sig
              /\ tok.typ = AccessToken
              /\ Unexpired(tok)
              /\ ~RevokedInStore(tok)
      /\ (tok.sig /\ Unexpired(tok) /\ tok.typ = RefreshToken)
           => ValidateTokenWithContext(tok, blacklist, now, e1, e2) = "invalid"
      /\ (tok.sig /\ Unexpired(tok) /\ tok.typ = AccessToken)
           => /\ ValidateRefreshTokenWithContext(tok, blacklist, now, e1, e2) = "invalid"
              /\ RefreshTokenPair(tok, tokens, blacklist, now, e1, e2, e3).res = "invalid"
              /\ RefreshTokenPair(tok, tokens, blacklist, now, e1, e2, e3).issued = {}

----------------------------------------------------------------------------
(* C18 *)

TokenTypes == {AccessToken, RefreshToken}

\* C18 (as stated): a validation yields exactly one of a user id, Invalid,
\* Expired, Revoked: Invalid for a forged token and for an unexpired token of
\* the wrong type, Expired for a correctly signed token past its expiresAt,
\* Revoked for a correctly signed, unexpired token of the right type that is
\* blacklisted or predates the revoke-all cutoff.
C18_Original ==
    \A tok \in Presentable, ty \in TokenTypes, e1 \in Faults, e2 \in Faults :
      /\ ~tok.sig => Validate(tok, ty, blacklist, now, e1, e2) = "invalid"
      /\ (tok.sig /\ Unexpired(tok) /\ tok.typ # ty)
           => Validate(tok, ty, blacklist, now, e1, e2) = "invalid"
      /\ (tok.sig /\ ~Unexpired(tok))
           => Validate(tok, ty, blacklist, now, e1, e2) = "expired"
      /\ (tok.sig /\ Unexpired(tok) /\ tok.typ = ty /\ RevokedInStore(tok))
           => Validate(tok, ty, blacklist, now, e1, e2) = "revoked"

----------------------------------------------------------------------------
(* C19 *)

\* C19 (as stated): after Logout was called with valid, unexpired tokens,
\* every later validation of such a token, while it is unexpired, fails with
\* Revoked; and a Logout changes the validation result of no unexpired token
\* that was not passed to it.
C19_Original ==
    /\ \A tok \in { x \in tokens : x.jti \in loggedOut /\ Unexpired(x) } :
         \A e1 \in Faults, e2 \in Faults :
           ValidateOwnType(tok, e1, e2) = "revoked"
    /\ \A a \in Presentable \cup {NoToken}, r \in Presentable \cup {NoToken} :
         \A ea \in Faults, er \in Faults :
           \A x \in { y \in tokens \ {a, r} : Unexpired(y) } :
             \A e1 \in Faults, e2 \in Faults :
               Validate(x, x.typ, LogoutOne(LogoutOne(blacklist, a, now, ea), r, now, er),
                        now, e1, e2)
                 = ValidateOwnType(x, e1, e2)

----------------------------------------------------------------------------
(* C20 *)

\* C20: a successful RefreshTokenPair(r) keeps every blacklist row and adds
\* at most the row of r's token id, and every other token has, at the instant
\* of the rotation, the same ValidateAccess and ValidateRefresh result against
\* the blacklist it leaves as against the blacklist it found.
C20_RotationFrame ==
    \A tok \in Presentable, e1 \in Faults, e2 \in Faults, e3 \in Faults :
      \A r \in { RefreshTokenPair(tok, tokens, blacklist, now, e1, e2, e3) } :
        r.res = "ok" =>
          /\ blacklist \subseteq r.bl
          /\ \A row \in r.bl \ blacklist : row.token_id = TokenKey(tok.jti)
          /\ \A x \in Presentable \ {tok}, ty \in TokenTypes :
               \A f1 \in Faults, f2 \in Faults :
                 Validate(x, ty, r.bl, now, f1, f2)
                   = Validate(x, ty, blacklist, now, f1, f2)

\* A refresh token has been rotated and is blacklisted while the access token
\* issued together with it still validates.
C20_Witness ==
    \E r \in tokens, a \in tokens :
      /\ r.typ = RefreshToken
      /\ r.jti \in rotated
      /\ IsTokenRevoked(blacklist, r.jti)
      /\ a.typ = AccessToken
      /\ a.jti = r.jti - 1
      /\ a.at = r.at
      /\ ValidateTokenWithContext(a, blacklist, now, FALSE, FALSE) = "ok"

----------------------------------------------------------------------------
(* C21 *)

\* Token tok would pass every test the claim lists: correctly signed, of type
\* access, unexpired, neither blacklisted nor older than a revoke-all marker.
Trustworthy(tok) ==
    /\ tok.sig
    /\ tok.typ = AccessToken
    /\ Unexpired(tok)
    /\ ~RevokedInStore(tok)

\* C21 (as stated): a connection enters the registry only under the user id
\* of a presented token, and never on a request whose token is missing,
\* invalid, expired or revoked: whenever connection c is added for user u,
\* some presentable token of u is signed, of type access, unexpired and not
\* revoked.
C21_Original ==
    [][ \A c \in Conns, u \in Users :
          (c \notin hubClients[u] /\ c \in hubClients'[u])
            => /\ connUser'[c] = u
               /\ \E tok \in Presentable : tok.sub = u /\ Trustworthy(tok) ]_vars

----------------------------------------------------------------------------
(* C24 *)

\* C24: BroadcastToUser always returns, and for each connection of the user
\* other than the excluded one it appends the message if the queue has room
\* and leaves the queue as it is if it is full; the queues of all other
\* connections are untouched and no queue exceeds its capacity.
C24_BestEffort ==
    \A u \in Users, msg \in Msgs, x \in Conns \cup {NoConn} :
      \A q \in { BroadcastToUser(hubClients, send, u, msg, x) } :
        \A c \in Conns :
          /\ Len(send[c]) <= SendCap
          /\ Len(q[c]) <= SendCap
          /\ q[c] = IF c \in hubClients[u] /\ c # x /\ Len(send[c]) < SendCap
                    THEN Append(send[c], msg)
                    ELSE send[c]

\* A user has two registered connections, one with a full queue and one
\* with room, and a broadcast to that user reaches the second.
C24_Witness ==
    \E u \in Users, c1 \in Conns, c2 \in Conns, msg \in Msgs :
      /\ c1 # c2
      /\ {c1, c2} \subseteq hubClients[u]
      /\ Len(send[c1]) = SendCap
      /\ Len(send[c2]) < SendCap
      /\ BroadcastToUser(hubClients, send, u, msg, NoConn)[c1] = send[c1]
      /\ BroadcastToUser(hubClients, send, u, msg, NoConn)[c2] = Append(send[c2], msg)

----------------------------------------------------------------------------
(* C25 *)

\* C25: unregistering a connection that is not in the registry changes
\* nothing and closes nothing; unregistering a connection twice leaves the
\* registry as unregistering it once does and closes its queue once; and the
\* queue of a connection is closed exactly when the connection was removed.
C25_RemoveIdempotent ==
    \A c \in Conns, u \in Users :
      \A once \in { unregisterClient(hubClients, c, u) } :
        /\ ~Registered(hubClients, c, u)
             => once = hubClients /\ CloseCalls(hubClients, c, u) = 0
        /\ unregisterClient(once, c, u) = once
        /\ CloseCalls(hubClients, c, u) + CloseCalls(once, c, u)
             = IF Registered(hubClients, c, u) THEN 1 ELSE 0
        /\ connUser[c] = u => (closed[c] <=> ~Registered(hubClients, c, u))

\* A connection that was registered has been unregistered and its queue
\* closed, while another connection of the same user is still registered.
C25_Witness ==
    \E c \in Conns, c2 \in Conns :
      /\ connUser[c] # NoUser
      /\ ~Registered(hubClients, c, connUser[c])
      /\ closed[c]
      /\ c2 # c
      /\ Registered(hubClients, c2, connUser[c])

----------------------------------------------------------------------------
(* C26 *)

----------------------------------------------------------------------------
(* C27 *)

\* The changes that carry a well-formed id.
WellFormedDTO == { c \in NoteDTO : c.id \in NoteIds }

----------------------------------------------------------------------------
(* C28 *)

\* C28 (as stated): no write to a note lowers its stored updatedAt.
C28_Original ==
    [][ \A i \in NoteIds :
          (notes[i] # NoRow /\ notes'[i] # NoRow)
            => notes'[i].updatedAt >= notes[i].updatedAt ]_vars

----------------------------------------------------------------------------
(* C29 *)

\* A connecting request that carries token p after the access_token entry of
\* its Sec-WebSocket-Protocol header, token a in a bearer Authorization header
\* and token q in its query string; NoToken where it carries none.
WSRequest(p, a, q) ==
    [protocols |-> IF p = NoToken THEN <<>> ELSE <<wsAuthProtocol, p>>,
     authorization |-> IF a = NoToken THEN NoAuthorization
                       ELSE [scheme |-> "bearer", tok |-> a],
     query |-> q]

\* The token the stated order of preference picks.
Preferred(p, a, q) == IF p # NoToken THEN p ELSE IF a # NoToken THEN a ELSE q

\* C29 (as stated): the request is judged by the preferred token alone: 401
\* "missing" without one, 401 "invalid or expired" if it is forged, of the
\* wrong type or expired, 401 "revoked" if it is blacklisted or older than a
\* revoke-all marker, and the upgrade under its user id otherwise.
C29_Original ==
    \A p \in Presentable \cup {NoToken}, a \in Presentable \cup {NoToken},
       q \in Presentable \cup {NoToken}, e1 \in Faults, e2 \in Faults :
      \A tok \in { Preferred(p, a, q) } :
        \A r \in { Admission(WSRequest(p, a, q), blacklist, now, e1, e2) } :
          /\ ChosenToken(WSRequest(p, a, q)) = tok
          /\ tok = NoToken
               => r.status = 401 /\ r.error = "missing authentication token"
          /\ (tok # NoToken /\ (~tok.sig \/ tok.typ # AccessToken \/ ~Unexpired(tok)))
               => r.status = 401 /\ r.error = "invalid or expired token"
          /\ (tok.sig /\ tok.typ = AccessToken /\ Unexpired(tok) /\ RevokedInStore(tok))
               => r.status = 401 /\ r.error = "token has been revoked"
          /\ (tok # NoToken /\ Trustworthy(tok))
               => r.status = 101 /\ r.userID = tok.sub

----------------------------------------------------------------------------
(* C30 *)

\* The calls of d1 and d2 have both completed and were in progress at the
\* same time.
Concurrent(d1, d2) ==
    /\ upserts[d1].phase = "done"
    /\ upserts[d2].phase = "done"
    /\ d2 \in upserts[d1].met
    /\ d1 \in upserts[d2].met

\* The call of d found the note and carried a newer updatedAt than the row it
\* read.
NewerThanStored(d) == upserts[d].newer

\* C30 (as stated): when two concurrent Sync calls of one user have changed
\* the same existing note with updatedAt T1 < T2, both newer than the stored
\* version, the stored note is the T2 version once both have completed.
C30_Original ==
    \A d1 \in Devices, d2 \in Devices :
      (/\ d1 # d2
       /\ DeviceUser(d1) = DeviceUser(d2)
       /\ Concurrent(d1, d2)
       /\ upserts[d1].note.id = upserts[d2].note.id
       /\ NewerThanStored(d1)
       /\ NewerThanStored(d2)
       /\ upserts[d1].note.updatedAt < upserts[d2].note.updatedAt)
      => /\ notes[upserts[d2].note.id].updatedAt = upserts[d2].note.updatedAt
         /\ notes[upserts[d2].note.id].title = upserts[d2].note.title
         /\ notes[upserts[d2].note.id].items = upserts[d2].note.items

----------------------------------------------------------------------------
(* C22 *)

Removed(c) == ~Registered(hubClients, c, connUser[c])

\* One of the two loops of c has been left.
LoopExited(c) ==
    \/ readPump[c] \in {"unregister", "closing", "exited"}
    \/ writePump[c] = "exited"

\* Both goroutines of c have returned and the hub no longer holds c.
TornDown(c) ==
    /\ readPump[c] = "exited"
    /\ writePump[c] = "exited"
    /\ Removed(c)

\* C22: once the read loop or the write loop of a registered connection has
\* been left (a read failed, a write failed, or the read deadline passed),
\* the other loop returns as well and the connection is removed from the
\* registry; it does not stay registered forever.
C22_ClosingLeadsToRemove ==
    \A c \in PumpConns : LoopExited(c) ~> TornDown(c)

\* A connection whose write failed first: WritePump closed it, ReadMessage
\* returned for that reason, and the connection has been torn down.
C22_Witness ==
    \E c \in PumpConns : readErr[c] = "closed" /\ TornDown(c)

----------------------------------------------------------------------------
(* C23 *)

\* The read deadline of c has been set and has passed while c is registered.
DeadlineMissed(c) ==
    /\ Registered(hubClients, c, connUser[c])
    /\ readDeadline[c] # NoDeadline
    /\ now >= readDeadline[c]

\* C23: pingPeriod is shorter than pongWait and a ping is written only when
\* the ticker, whose period is pingPeriod, has fired; a frame other than a
\* pong leaves the read deadline where it was; and a registered connection
\* whose read deadline passes without a pong is closed and removed from the
\* registry.
C23_SilentConnectionsClosed ==
    /\ [](PingPeriod < PongWait)
    /\ [][\A c \in PumpConns :
            /\ WritePing(c) => /\ now >= nextPing[c]
                               /\ nextPing'[c] = nextPing[c] + PingPeriod
            /\ \A frame \in Frames \ {"pong"} :
                 ReadFrame(c, frame) => readDeadline'[c] = readDeadline[c]]_vars
    /\ \A c \in PumpConns :
         DeadlineMissed(c) ~> (Removed(c) /\ ~connOpen[c])

\* A connection that was closed because its read deadline passed: ReadMessage
\* returned the timeout, the hub closed Send, and both goroutines returned.
C23_Witness ==
    \E c \in PumpConns :
      /\ readErr[c] = "timeout"
      /\ send[c] = <<>> /\ closed[c]
      /\ TornDown(c)
      /\ ~connOpen[c]

----------------------------------------------------------------------------
(* C32 *)

\* C32 (as stated): whenever a store call made by Sync returns an error, be
\* it during an upsert, a soft delete or one of the two delta queries, Sync
\* returns an error.
C32_Original ==
    \A u \in Users, b \in Batches, op \in StoreOps :
      \A r \in { SyncFaulty(notes, u, Request(b, NoLastSync), now, {op}) } :
        r.failed => r.err

----------------------------------------------------------------------------
(* C33 *)

\* The notes a user can submit for a stored id: every change, converted at
\* the current time.
Incoming(u) ==
    { dtoToNote(c, u, now) : c \in { x \in NoteDTO : x.id \in NoteIds } }

\* C33: when the incoming note carries exactly the updatedAt of the stored
\* note, Upsert reports success and leaves the store as it is: fields,
\* updatedAt and checklist items of the stored note are unchanged.
C33_TieKeepsStored ==
    \A u \in Users :
      \A note \in Incoming(u) :
        LET existing == GetByID(notes, note.id, u)
        IN (existing # NoRow /\ note.updatedAt = existing.updatedAt)
           => Upsert(notes, note) = [store |-> notes, err |-> FALSE]

\* A stored note for which a change with the same updatedAt and another
\* content can be submitted.
C33_Witness ==
    \E u \in Users :
      \E note \in Incoming(u) :
        LET existing == GetByID(notes, note.id, u)
        IN /\ existing # NoRow
           /\ note.updatedAt = existing.updatedAt
           /\ note.title # existing.title
           /\ note.items # existing.items

----------------------------------------------------------------------------
(* C34 *)

\* Row i of the store belongs to somebody other than u.
Foreign(store, i, u) == store[i] # NoRow /\ store[i].owner # u

\* C34: a Sync call of user u, whatever its batch and lastSync, leaves every
\* row of another user as it was, creates no row for another user, and
\* returns neither a note nor an id of a row of another user; this holds for
\* a call that fails as well.
C34_OwnerIsolation ==
    \A u \in Users, b \in Batches :
      \A a \in { ApplyBatch(notes, u, b, now) } :
        /\ \A i \in NoteIds :
             (Foreign(notes, i, u) \/ Foreign(a.store, i, u)) => a.store[i] = notes[i]
        /\ ~a.err =>
             \A ls \in AnyLastSync :
               \A r \in { Delta(a.store, u, ParseLastSync(ls)) } :
                 /\ \A n \in r.notes : ~Foreign(a.store, n.id, u)
                 /\ \A i \in r.deleted : ~Foreign(a.store, i, u)

\* Both users have a note, and the first one asks for the deletion of the
\* note of the second: the call succeeds and returns the caller's own note.
C34_Witness ==
    \E i \in NoteIds, j \in NoteIds :
      /\ notes[i] # NoRow /\ notes[i].owner = "u2" /\ notes[i].deletedAt = Null
      /\ notes[j] # NoRow /\ notes[j].owner = "u1"
      /\ \E r \in { Sync(notes, "u1",
                         Request([changes |-> <<>>, deletedIDs |-> <<i>>], NoLastSync),
                         now) } :
           /\ ~r.err
           /\ r.store[i] = notes[i]
           /\ r.notes \cup r.deleted # {}

----------------------------------------------------------------------------
(* C39 *)

\* Device d has received a response; pending[d] holds its two lists.
Responded(d) == ~pending[d].open /\ "deleted" \in DOMAIN pending[d]

\* C39 (as stated): in every Sync response the ids of the notes and the
\* deleted ids are disjoint.
C39_Original ==
    \A d \in Devices :
      Responded(d) => pending[d].notes \cap pending[d].deleted = {}

----------------------------------------------------------------------------
(* C40 *)

\* The changes with a valid id whose updatedAt does not parse, with a
\* createdAt that parses or not.
Unparseable ==
    { [c EXCEPT !.createdAt = k] :
        c \in { x \in NoteDTO : x.id \in NoteIds /\ x.updatedAt = BadTime },
        k \in {0, BadTime} }

\* C40: a change with a valid id and an unparseable updatedAt is not skipped.
\* Sync converts it with the current server time in place of every timestamp
\* that does not parse and calls the store with it: a note that does not
\* exist is created with that time, a stored live note of the caller is
\* replaced when the server time is later than its updatedAt and kept when
\* it is not.
C40_UnparseableBecomesNow ==
    \A u \in Users, c \in Unparseable :
      LET existing == GetByID(notes, c.id, u)
          r == ApplyChanges(notes, u, <<c>>, now)
          stamped == [owner |-> u, title |-> c.title, items |-> c.items,
                      createdAt |-> IF c.createdAt = BadTime THEN now ELSE ParseISO(c.createdAt),
                      updatedAt |-> now, deletedAt |-> Null]
      IN /\ StoreCalls([changes |-> <<c>>, deletedIDs |-> <<>>]) = 1
         /\ notes[c.id] = NoRow => r = [store |-> [notes EXCEPT ![c.id] = stamped],
                                        err |-> FALSE]
         /\ (existing # NoRow /\ now > existing.updatedAt) =>
              r = [store |-> [notes EXCEPT ![c.id] =
                                [stamped EXCEPT !.createdAt = existing.createdAt]],
                   err |-> FALSE]
         /\ (existing # NoRow /\ now <= existing.updatedAt) =>
              r = [store |-> notes, err |-> FALSE]

\* A user holds one note older than the server time and one that is not:
\* the replacing case and the keeping case are both at hand.
C40_Witness ==
    \E u \in Users, i \in NoteIds, j \in NoteIds :
      /\ GetByID(notes, i, u) # NoRow /\ now > notes[i].updatedAt
      /\ GetByID(notes, j, u) # NoRow /\ now <= notes[j].updatedAt

----------------------------------------------------------------------------
(* C38 *)

\* C38: every connection of the registry is filed under the user id it was
\* created with and under no other, and BroadcastToUser(u, msg, x) changes
\* the queues of connections registered under u only: the queue of a
\* connection of another user, or of none, is the same after the call.
C38_NoCrossUser ==
    /\ \A u \in Users, c \in Conns : c \in hubClients[u] => connUser[c] = u
    /\ \A u \in Users, msg \in Msgs, x \in Conns \cup {NoConn} :
         \A q \in { BroadcastToUser(hubClients, send, u, msg, x) } :
           \A c \in Conns :
             /\ connUser[c] # u => q[c] = send[c]
             /\ q[c] # send[c] => c \in hubClients[u] /\ q[c] = Append(send[c], msg)

\* Two users have a registered connection each, and a broadcast to the first
\* reaches its connection.
C38_Witness ==
    \E c1 \in Conns, c2 \in Conns :
      /\ c1 \in hubClients["u1"]
      /\ c2 \in hubClients["u2"]
      /\ \E msg \in Msgs :
           BroadcastToUser(hubClients, send, "u1", msg, NoConn)[c1] # send[c1]

----------------------------------------------------------------------------
(* C35 *)

\* The results with which a validation rejects a token for good.
Rejections == {"expired", "revoked"}

\* C35 (as stated): a token that a validation has rejected as expired or as
\* revoked is not accepted by a validation after the next step, whatever
\* that step is and whatever the store lookups of either validation return.
C35_Original ==
    [][\A tok \in Presentable, typ \in TokenTypes :
         \A e1 \in Faults, e2 \in Faults, f1 \in Faults, f2 \in Faults :
           Validate(tok, typ, blacklist, now, e1, e2) \in Rejections
             => Validate(tok, typ, blacklist', now', f1, f2) # "ok"]_vars

----------------------------------------------------------------------------
(* C31 *)

\* Both callers have completed a call with the same refresh token, and the
\* two calls were in progress at the same time.
ConcurrentRefresh(k1, k2) ==
    /\ refreshCalls[k1].phase = "done"
    /\ refreshCalls[k2].phase = "done"
    /\ refreshCalls[k1].tok = refreshCalls[k2].tok
    /\ refreshCalls[k1].met
    /\ refreshCalls[k2].met

\* C31 (as stated): of two RefreshTokenPair calls that run concurrently with
\* the same valid refresh token, at most one returns a new pair.
C31_Original ==
    \A k1 \in Callers, k2 \in Callers :
      (k1 # k2 /\ ConcurrentRefresh(k1, k2))
        => ~(refreshCalls[k1].res = "ok" /\ refreshCalls[k2].res = "ok")

----------------------------------------------------------------------------
(* C36 *)

\* A goroutine is at a place from which it can send on c's Send channel:
\* the read loop of c can take a ping, or a broadcaster holds the read lock
\* with c still to be served, or c is in the registry, where the next
\* broadcaster will find it.
MaySend(c) ==
    \/ readPump[c] = "reading"
    \/ \E b \in Broadcasters : bcast[b].pc = "range" /\ c \in bcast[b].todo
    \/ Registered(hubClients, c, connUser[c])

\* C36: once unregisterClient has closed a connection's Send channel, no
\* goroutine can send on it and nothing has been sent on it, and a further
\* unregisterClient call for the connection closes nothing.
C36_NoSendOnClosed ==
    \A c \in LockConns :
      closed[c] =>
        /\ ~MaySend(c)
        /\ send[c] = <<>>
        /\ CloseCalls(hubClients, c, connUser[c]) = 0

\* A connection's channel is closed after its read loop replied to a ping,
\* while a broadcaster that was waiting for the lock goes through the
\* registry of the connection's user.
C36_Witness ==
    \E c \in LockConns, b \in Broadcasters :
      /\ closed[c]
      /\ bcast[b].pc = "range"
      /\ bcast[b].user = connUser[c]
      /\ \E d \in LockConns \ {c} : PongMessage \in { send[d][k] : k \in 1..Len(send[d]) }

----------------------------------------------------------------------------
(* C37 *)

\* C37: while Hub.Run runs, a handler blocked in Register, a read loop
\* blocked in Unregister and a goroutine inside BroadcastToUser all get
\* their call to return.
C37_CallsReturn ==
    /\ \A c \in LockConns : handler[c] = "register" ~> handler[c] = "registered"
    /\ \A c \in LockConns : readPump[c] = "unregister" ~> readPump[c] = "closing"
    /\ \A b \in Broadcasters : bcast[b].pc # "idle" ~> bcast[b].pc = "idle"

\* Hub.Run waits for the write lock with a Register behind it, while one
\* broadcaster holds the read lock, the other waits for it, and a read loop
\* is blocked in Unregister.
C37_Witness ==
    /\ hubRun.pc = "lock"
    /\ hubRun.op = "register"
    /\ \E b1 \in Broadcasters, b2 \in Broadcasters :
         /\ b1 \in mu
         /\ bcast[b2].pc = "rlock"
    /\ \E c \in LockConns : readPump[c] = "unregister"

====
